---- MODULE Spec2Model ----
(***************************************************************************)
(* Onion clustering of univariate time series: the iterative Gaussian fit  *)
(* / window stability search (main.py), the relabeler, threshold solver,   *)
(* overlap merger and max-probability reassigner (functions.py).           *)
(*                                                                         *)
(* Number representation.  Signal values, means and sigmas are integers.   *)
(* A Gaussian's height is kept as the natural logarithm of its peak        *)
(* density in units of 1/LN_DEN (field lnpeak), so that                    *)
(* area = sqrt(pi) * sigma * e^(lnpeak/LN_DEN)  and every logarithm        *)
(* find_intersection takes is an integer over LN_DEN.  Threshold           *)
(* values are fixed-point numbers with denominator TH_DEN.  A relevance    *)
(* fraction (perc, window_fraction) is kept as its numerator, the          *)
(* denominator being all_the_labels.size for the whole run.                *)
(***************************************************************************)
EXTENDS Integers, Sequences, FiniteSets, TLC

VARIABLES
    pc,              \* position in timeseries_analysis / iterative_search
    m_clean,         \* Signal Matrix: one row of frames per particle
    all_the_labels,  \* Label Matrix: one row of window labels per particle
    states_list,     \* raw state list of iterative_search
    m_copy,          \* residual signal handed to the next fit
    state,           \* the state fitted in the current iteration, or None
    states_counter,  \* number of states accepted so far
    one_last_state,  \* flag returned by the last find_stable_trj call
    list_of_states,  \* state list after relabel / merge / reassignment
    fit_args,        \* arguments of one fit attempt, or None
    fit_result,      \* (flag, goodness, popt) of the fit attempt, or None
    result,          \* what timeseries_analysis returned, or None
    par,             \* the Parameters of the run or sweep, or None
    sweep,           \* loop state of time_resolution_analysis, or None
    merge            \* arguments and lists of one set_final_states call, or None

vars == <<pc, m_clean, all_the_labels, states_list, m_copy, state,
          states_counter, one_last_state, list_of_states, fit_args, fit_result,
          result, par, sweep, merge>>

fitvars == <<fit_args, fit_result>>

runvars == <<result, par, sweep, merge>>

\* gauss_fit_max returns a State or None: None is <<>>, a State st is <<st>>
None == <<>>
Some(st) == <<st>>

\* ---------------------------------------------------------------- bounds
NumPart == 1        \* particles (rows of the Signal Matrix)
NumWin == 3         \* windows per particle
tau_window == 3     \* frames per window (par.tau_w)
NUMBER_OF_SIGMAS == 2
TH_DEN == 8 * 3     \* denominator of fixed-point threshold values
LN_DEN == 1 + 1     \* denominator of the logarithm of a peak density

\* the window shapes the Signal Matrix is built from
WindowSet == { <<1, 1, 3>>, <<5, 7, 7>>, <<0, 4, 8>> }

\* the (mean, sigma, lnpeak) triples a fit can come back with
FitSet == { <<2, 1, 4>>, <<6, 1, 0>>, <<4, 2, 4>>, <<2, 2, 12>>, <<3, 1, 0>> }

\* ------------------------------------------------------------- helpers
RECURSIVE Concat(_, _)
Concat(rows, n) == IF n = 0 THEN <<>> ELSE Concat(rows, n - 1) \o rows[n]

RECURSIVE SeqMin(_)
SeqMin(s) == IF Len(s) = 1 THEN s[1]
             ELSE LET r == SeqMin(Tail(s)) IN IF s[1] < r THEN s[1] ELSE r

RECURSIVE SeqMax(_)
SeqMax(s) == IF Len(s) = 1 THEN s[1]
             ELSE LET r == SeqMax(Tail(s)) IN IF s[1] > r THEN s[1] ELSE r

\* np.sum([state.perc for state in list_of_states]), as a numerator
RECURSIVE SumPerc(_)
SumPerc(sl) == IF sl = <<>> THEN 0 ELSE sl[1].perc + SumPerc(Tail(sl))

\* m_reshaped[i][w]: the frames of window w of particle i
Window(m, i, w) == SubSeq(m[i], (w - 1) * tau_window + 1, w * tau_window)

Cells == (1..NumPart) \X (1..NumWin)

\* row-major order of the cells, as np.argwhere enumerates them
CellSeq == [k \in 1..(NumPart * NumWin) |->
              <<((k - 1) \div NumWin) + 1, ((k - 1) % NumWin) + 1>>]

\* ----------------------------------------------------------- State class
\* State(mean, sigma, area) followed by build_boundaries(number_of_sigmas)
build_boundaries(st, number_of_sigmas) ==
    [st EXCEPT !.th_inf = <<(st.mean - number_of_sigmas * st.sigma) * TH_DEN, -1>>,
               !.th_sup = <<(st.mean + number_of_sigmas * st.sigma) * TH_DEN, -1>>]

NewState(mean, sigma, lnpeak) ==
    [mean |-> mean, sigma |-> sigma, lnpeak |-> lnpeak, perc |-> 0,
     th_inf |-> <<0, -1>>, th_sup |-> <<0, -1>>]

\* ------------------------------------------------------ find_stable_trj
\* mutant: the mask of unclassified windows is dropped
mask_unclassified_any(labels, i, w) == TRUE

mask_unclassified(labels, i, w) == labels[i][w] = 0

\* mutant: the lower bound is tested on the window's maximum
mask_inf_on_max(m, st, i, w) == SeqMax(Window(m, i, w)) * TH_DEN >= st.th_inf[1]

mask_inf(m, st, i, w) == SeqMin(Window(m, i, w)) * TH_DEN >= st.th_inf[1]

mask_sup(m, st, i, w) == SeqMax(Window(m, i, w)) * TH_DEN <= st.th_sup[1]

stable_mask(m, st, labels, i, w) ==
    mask_unclassified(labels, i, w) /\ mask_inf(m, st, i, w) /\ mask_sup(m, st, i, w)

mask_remaining(m, st, labels, i, w) ==
    mask_unclassified(labels, i, w) /\ ~stable_mask(m, st, labels, i, w)

RECURSIVE remaning_data(_, _, _, _)
remaning_data(m, st, labels, k) ==
    IF k = 0 THEN <<>>
    ELSE LET c == CellSeq[k]
             rest == remaning_data(m, st, labels, k - 1)
         IN IF mask_remaining(m, st, labels, c[1], c[2])
            THEN Append(rest, Window(m, c[1], c[2]))
            ELSE rest

\* mutant: the counter counts every window inside the bounds
stable_counter_all(m, st, labels) ==
    Cardinality({c \in Cells : mask_inf(m, st, c[1], c[2]) /\ mask_sup(m, st, c[1], c[2])})

stable_counter(m, st, labels) ==
    Cardinality({c \in Cells : stable_mask(m, st, labels, c[1], c[2])})

\* mutant: the offset is ignored, every stable window gets label 1
find_stable_trj_no_offset(m, st, labels, offset) ==
    LET m2_array == remaning_data(m, st, labels, NumPart * NumWin)
    IN [labels |-> [i \in 1..NumPart |-> [w \in 1..NumWin |->
                      IF stable_mask(m, st, labels, i, w) THEN 1
                      ELSE labels[i][w]]],
        m2_array |-> m2_array,
        window_fraction |-> stable_counter(m, st, labels),
        one_last_state |-> (Len(m2_array) # 0)]

find_stable_trj(m, st, labels, offset) ==
    LET m2_array == remaning_data(m, st, labels, NumPart * NumWin)
    IN [labels |-> [i \in 1..NumPart |-> [w \in 1..NumWin |->
                      IF stable_mask(m, st, labels, i, w) THEN offset + 1
                      ELSE labels[i][w]]],
        m2_array |-> m2_array,
        window_fraction |-> stable_counter(m, st, labels),
        one_last_state |-> (Len(m2_array) # 0)]

\* -------------------------------------------------------- gauss_fit_max
\* what a fit attempt can return: None, or a State with its boundaries built
FitOutcomes ==
    {None} \cup
    { Some(build_boundaries(NewState(p[1], p[2], p[3]), NUMBER_OF_SIGMAS)) :
        p \in FitSet }

\* ------------------------------------------------------- relabel_states
\* mutant: no state is dropped
relevant_idx_all(sl, n) == [k \in 1..n |-> k]

\* indices (into sl) of the states kept, in discovery order
RECURSIVE relevant_idx(_, _)
relevant_idx(sl, n) ==
    IF n = 0 THEN <<>>
    ELSE IF sl[n].perc # 0 THEN Append(relevant_idx(sl, n - 1), n)
         ELSE relevant_idx(sl, n - 1)

\* mutant: an index goes in front of the indices of equal mean
RECURSIVE insert_by_mean_unstable(_, _, _)
insert_by_mean_unstable(sl, sorted, x) ==
    IF sorted = <<>> THEN <<x>>
    ELSE IF sl[sorted[Len(sorted)]].mean < sl[x].mean THEN Append(sorted, x)
         ELSE Append(insert_by_mean_unstable(sl, SubSeq(sorted, 1, Len(sorted) - 1), x),
                     sorted[Len(sorted)])

\* list.sort(key=mean): stable insertion of index x into an index list
\* already sorted by mean
RECURSIVE insert_by_mean(_, _, _)
insert_by_mean(sl, sorted, x) ==
    IF sorted = <<>> THEN <<x>>
    ELSE IF sl[sorted[Len(sorted)]].mean <= sl[x].mean THEN Append(sorted, x)
         ELSE Append(insert_by_mean(sl, SubSeq(sorted, 1, Len(sorted) - 1), x),
                     sorted[Len(sorted)])

RECURSIVE sort_by_mean(_, _, _)
sort_by_mean(sl, idx, n) ==
    IF n = 0 THEN <<>>
    ELSE insert_by_mean(sl, sort_by_mean(sl, idx, n - 1), idx[n])

\* mutant: the new labels are handed out in descending order of the mean
relabel_map_reversed(sl, order) ==
    [old \in 0..Len(sl) |->
        IF \E k \in 1..Len(order) : order[k] = old
        THEN Len(order) + 1 - (CHOOSE k \in 1..Len(order) : order[k] = old)
        ELSE 0]

\* relabel_map[old] = new, 0 for every label without a surviving state
relabel_map(sl, order) ==
    [old \in 0..Len(sl) |->
        IF \E k \in 1..Len(order) : order[k] = old
        THEN CHOOSE k \in 1..Len(order) : order[k] = old
        ELSE 0]

relabel_states(labels, sl) ==
    LET idx == relevant_idx(sl, Len(sl))
        order == sort_by_mean(sl, idx, Len(idx))
        rmap == relabel_map(sl, order)
    IN [labels |-> [i \in 1..NumPart |-> [w \in 1..NumWin |->
                      IF labels[i][w] # 0 THEN rmap[labels[i][w]] ELSE 0]],
        states |-> [k \in 1..Len(order) |-> sl[order[k]]]]

\* ----------------------------------------------------- find_intersection
\* floor of the square root
RECURSIVE IsqrtIter(_, _, _)
IsqrtIter(n, lo, hi) ==
    IF lo >= hi THEN lo
    ELSE LET mid == (lo + hi + 1) \div 2
         IN IF mid * mid <= n THEN IsqrtIter(n, mid, hi) ELSE IsqrtIter(n, lo, mid - 1)

\* the search stays below the square root of the largest machine integer
Isqrt(n) == IsqrtIter(n, 0, IF n < 46340 THEN n ELSE 46340)

\* floor(num / den) for either sign of den
FloorDiv(num, den) == IF den > 0 THEN num \div den ELSE (-num) \div (-den)

\* np.log(st_0.area * st_1.sigma / st_1.area / st_0.sigma), times LN_DEN:
\* the areas being sqrt(pi)*sigma*peak, this is the difference of the two
\* logarithms of the peaks
tmp_c(st_0, st_1) == st_0.lnpeak - st_1.lnpeak

\* the three coefficients of the quadratic are kept multiplied by LN_DEN,
\* which changes neither its roots nor the sign of its discriminant
coeff_a(st_0, st_1) == LN_DEN * (st_1.sigma * st_1.sigma - st_0.sigma * st_0.sigma)

coeff_b(st_0, st_1) ==
    -2 * LN_DEN
       * (st_0.mean * st_1.sigma * st_1.sigma - st_1.mean * st_0.sigma * st_0.sigma)

coeff_c(st_0, st_1) ==
    LN_DEN * ((st_0.mean * st_1.sigma) * (st_0.mean * st_1.sigma)
              - (st_1.mean * st_0.sigma) * (st_1.mean * st_0.sigma))
    - (st_0.sigma * st_1.sigma) * (st_0.sigma * st_1.sigma) * tmp_c(st_0, st_1)

delta(st_0, st_1) ==
    coeff_b(st_0, st_1) * coeff_b(st_0, st_1)
    - 4 * coeff_a(st_0, st_1) * coeff_c(st_0, st_1)

\* np.log(st_0.area / st_1.area), times LN_DEN, in the branch coeff_a = 0,
\* where the sigmas are equal
log_area_ratio(st_0, st_1) == st_0.lnpeak - st_1.lnpeak

\* the value a division by st_1.mean - st_0.mean = 0 leaves (inf or nan)
NotANumber == "nan"

\* (st_0.mean + st_1.mean)/2 - st_0.sigma**2/2/(st_1.mean - st_0.mean)*log(...)
only_th(st_0, st_1) ==
    IF st_1.mean = st_0.mean THEN NotANumber
    ELSE FloorDiv(TH_DEN * (LN_DEN * (st_0.mean + st_1.mean) * (st_1.mean - st_0.mean)
                            - st_0.sigma * st_0.sigma * log_area_ratio(st_0, st_1)),
                  2 * LN_DEN * (st_1.mean - st_0.mean))

\* (-coeff_b + np.sqrt(delta)) / (2 * coeff_a): coeff_b is even and delta a
\* multiple of 4, and both are halved before the root is taken
th_plus(st_0, st_1) ==
    FloorDiv(-(coeff_b(st_0, st_1) \div 2) * TH_DEN
                + Isqrt((delta(st_0, st_1) \div 4) * TH_DEN * TH_DEN),
             coeff_a(st_0, st_1))

th_minus(st_0, st_1) ==
    FloorDiv(-(coeff_b(st_0, st_1) \div 2) * TH_DEN
                - Isqrt((delta(st_0, st_1) \div 4) * TH_DEN * TH_DEN),
             coeff_a(st_0, st_1))

\* intercept_plus >= intercept_minus: the Gaussian of st_0 is at least as
\* high at th_plus as at th_minus iff th_plus is not farther from st_0.mean,
\* i.e. iff (-b - 2*a*mean_0) * sqrt(delta) <= 0
intercept_plus_ge_minus(st_0, st_1) ==
    \/ delta(st_0, st_1) = 0
    \/ -coeff_b(st_0, st_1) - 2 * coeff_a(st_0, st_1) * st_0.mean <= 0

th_aver(st_0, st_1) ==
    FloorDiv(TH_DEN * (st_0.mean * st_1.sigma + st_1.mean * st_0.sigma),
             st_0.sigma + st_1.sigma)

find_intersection(st_0, st_1) ==
    IF coeff_a(st_0, st_1) = 0 THEN <<only_th(st_0, st_1), 1>>
    ELSE IF delta(st_0, st_1) >= 0
         THEN IF intercept_plus_ge_minus(st_0, st_1)
              THEN <<th_plus(st_0, st_1), 1>>
              ELSE <<th_minus(st_0, st_1), 1>>
         ELSE <<th_aver(st_0, st_1), 2>>

\* -------------------------------------------------- final_state_settings
label_count(labels, l) == Cardinality({c \in Cells : labels[c[1]][c[2]] = l})

\* [sig_min, sig_max] of preparing_the_data, as fixed-point values
m_range_of(m) ==
    LET flat == Concat(m, NumPart)
    IN <<SeqMin(flat) * TH_DEN, SeqMax(flat) * TH_DEN>>

\* mutant: the lower threshold built by build_boundaries is never rewritten
state_th_inf_kept(sl, m_range, i) == sl[i].th_inf

state_th_inf(sl, m_range, i) ==
    IF i = 1 THEN <<m_range[1], 0>> ELSE find_intersection(sl[i - 1], sl[i])

\* mutant: the upper threshold built by build_boundaries is never rewritten
state_th_sup_kept(sl, m_range, i) == sl[i].th_sup

state_th_sup(sl, m_range, i) ==
    IF i = Len(sl) THEN <<m_range[2], 0>> ELSE find_intersection(sl[i], sl[i + 1])

\* defined for a non-empty list; list_of_states[0] raises on an empty one
final_state_settings(sl, labels, m_range) ==
    [i \in 1..Len(sl) |->
        [sl[i] EXCEPT !.perc = label_count(labels, i),
                      !.th_inf = state_th_inf(sl, m_range, i),
                      !.th_sup = state_th_sup(sl, m_range, i)]]

\* ------------------------------------------------------ set_final_states
\* 1000 * e^(n/LN_DEN), truncated
ExpMilli == [n \in 0..12 |->
               CASE n = 0 -> 1000 [] n = 1 -> 1648 [] n = 2 -> 2718 [] n = 3 -> 4481
                 [] n = 4 -> 7389 [] n = 5 -> 12182 [] n = 6 -> 20085
                 [] n = 7 -> 33115 [] n = 8 -> 54598 [] n = 9 -> 90017
                 [] n = 10 -> 148413 [] n = 11 -> 244691 [] n = 12 -> 403428]

\* st.area / sqrt(pi), times 1000
area_milli(st) == st.sigma * ExpMilli[st.lnpeak]

\* st_0.peak > st_1.peak, the peak being area/sigma/sqrt(pi)
peak_gt(st_0, st_1) == st_0.lnpeak > st_1.lnpeak

\* np.abs(st_0.mean - st_1.mean) < st_a.sigma / np.sqrt(2)
mean_close(st_0, st_1, st_a) ==
    2 * (st_0.mean - st_1.mean) * (st_0.mean - st_1.mean) < st_a.sigma * st_a.sigma

\* mutant: when both fractions exceed the threshold the state of the smaller
\* fraction is the one merged
pair_proposal_smaller(i, j, st_0, st_1, shared_area_1, shared_area_2, thresh) ==
    IF shared_area_1 > thresh /\ shared_area_2 <= thresh THEN << <<j, i>> >>
    ELSE IF shared_area_2 > thresh /\ shared_area_1 <= thresh THEN << <<i, j>> >>
    ELSE IF shared_area_1 > thresh /\ shared_area_2 > thresh
         THEN IF shared_area_1 > shared_area_2 THEN << <<i, j>> >> ELSE << <<j, i>> >>
    ELSE IF /\ peak_gt(st_0, st_1)
            /\ mean_close(st_0, st_1, st_0)
            /\ st_1.sigma < 2 * st_0.sigma
         THEN << <<j, i>> >>
    ELSE IF /\ peak_gt(st_1, st_0)
            /\ mean_close(st_0, st_1, st_1)
            /\ st_0.sigma < 2 * st_1.sigma
         THEN << <<i, j>> >>
    ELSE <<>>

\* mutant: the secondary rule is tried first, the overlap rule after it
pair_proposal_secondary_first(i, j, st_0, st_1, shared_area_1, shared_area_2, thresh) ==
    IF /\ peak_gt(st_0, st_1)
       /\ mean_close(st_0, st_1, st_0)
       /\ st_1.sigma < 2 * st_0.sigma
    THEN << <<j, i>> >>
    ELSE IF /\ peak_gt(st_1, st_0)
            /\ mean_close(st_0, st_1, st_1)
            /\ st_0.sigma < 2 * st_1.sigma
         THEN << <<i, j>> >>
    ELSE IF shared_area_1 > thresh /\ shared_area_2 <= thresh THEN << <<j, i>> >>
    ELSE IF shared_area_2 > thresh /\ shared_area_1 <= thresh THEN << <<i, j>> >>
    ELSE IF shared_area_1 > thresh /\ shared_area_2 > thresh
         THEN IF shared_area_1 > shared_area_2 THEN << <<j, i>> >> ELSE << <<i, j>> >>
    ELSE <<>>

\* the merge proposed for the pair (i, j), i < j: a sequence of at most one
\* <<source, target>>.  shared_area_1 is the shared fraction of st_1 (state
\* j), shared_area_2 that of st_0 (state i), both in 1/1000
pair_proposal(i, j, st_0, st_1, shared_area_1, shared_area_2, thresh) ==
    IF shared_area_1 > thresh /\ shared_area_2 <= thresh THEN << <<j, i>> >>
    ELSE IF shared_area_2 > thresh /\ shared_area_1 <= thresh THEN << <<i, j>> >>
    ELSE IF shared_area_1 > thresh /\ shared_area_2 > thresh
         THEN IF shared_area_1 > shared_area_2 THEN << <<j, i>> >> ELSE << <<i, j>> >>
    ELSE IF /\ peak_gt(st_0, st_1)
            /\ mean_close(st_0, st_1, st_0)
            /\ st_1.sigma < 2 * st_0.sigma
         THEN << <<j, i>> >>
    ELSE IF /\ peak_gt(st_1, st_0)
            /\ mean_close(st_0, st_1, st_1)
            /\ st_0.sigma < 2 * st_1.sigma
         THEN << <<i, j>> >>
    ELSE <<>>

\* the pairs (i, j), i < j, in the order of the two nested loops
RECURSIVE pair_seq(_, _, _)
pair_seq(n, i, j) ==
    IF i > n THEN <<>>
    ELSE IF j > n THEN pair_seq(n, i + 1, i + 2)
    ELSE << <<i, j>> >> \o pair_seq(n, i, j + 1)

\* shared[<<i, j>>] = <<shared_area_1, shared_area_2>>
RECURSIVE proposed_merge(_, _, _, _, _)
proposed_merge(sl, shared, thresh, pairs, k) ==
    IF k = 0 THEN <<>>
    ELSE LET i == pairs[k][1]
             j == pairs[k][2]
         IN proposed_merge(sl, shared, thresh, pairs, k - 1)
            \o pair_proposal(i, j, sl[i], sl[j], shared[pairs[k]][1],
                             shared[pairs[k]][2], thresh)

AbsVal(x) == IF x < 0 THEN -x ELSE x

candidate_merge(proposed, j) == SelectSeq(proposed, LAMBDA pair : pair[1] = j)

\* mutant: the candidate at the largest distance is taken
closest_candidate_farthest(sl, cand) ==
    LET dist(k) == AbsVal(sl[cand[k][2]].mean - sl[cand[k][1]].mean)
        best == CHOOSE k \in 1..Len(cand) :
                   /\ \A l \in 1..Len(cand) : dist(k) >= dist(l)
                   /\ \A l \in 1..(k - 1) : dist(l) < dist(k)
    IN cand[best]

\* np.argmin: the first candidate at the least distance between the means
closest_candidate(sl, cand) ==
    LET dist(k) == AbsVal(sl[cand[k][2]].mean - sl[cand[k][1]].mean)
        best == CHOOSE k \in 1..Len(cand) :
                   /\ \A l \in 1..Len(cand) : dist(k) <= dist(l)
                   /\ \A l \in 1..(k - 1) : dist(l) > dist(k)
    IN cand[best]

\* one best merge per source, the sources in increasing order (np.unique)
RECURSIVE best_merge(_, _, _)
best_merge(sl, proposed, j) ==
    IF j = 0 THEN <<>>
    ELSE LET cand == candidate_merge(proposed, j)
             rest == best_merge(sl, proposed, j - 1)
         IN IF cand = <<>> THEN rest
            ELSE IF Len(cand) = 1 THEN Append(rest, cand[1])
            ELSE Append(rest, closest_candidate(sl, cand))

\* settle merging chains: for each pair in turn, every [k, pair[0]] becomes
\* [k, pair[1]], the list being rewritten in place
RECURSIVE settle_chains(_, _)
settle_chains(best, k) ==
    IF k > Len(best) THEN best
    ELSE settle_chains([j \in 1..Len(best) |->
                          IF best[j][2] = best[k][1]
                          THEN <<best[j][1], best[k][2]>> ELSE best[j]],
                       k + 1)

max_label(labels) ==
    CHOOSE l \in 0..(NumPart * NumWin + 1) :
        /\ \E c \in Cells : labels[c[1]][c[2]] = l
        /\ \A c \in Cells : labels[c[1]][c[2]] <= l

\* mutant: relabel_map[key + 1] = value, the target's label one too low
merge_relabel_map_low(best, maxl) ==
    [l \in 0..maxl |->
        IF \E k \in 1..Len(best) : best[k][1] = l
        THEN best[CHOOSE k \in 1..Len(best) : best[k][1] = l][2] - 1
        ELSE l]

\* mutant: the windows of a merged state keep their label
merge_relabel_map_none(best, maxl) == [l \in 0..maxl |-> l]

\* relabel_map: the identity on 0..max label, each merged source sent to
\* its target
merge_relabel_map(best, maxl) ==
    [l \in 0..maxl |->
        IF \E k \in 1..Len(best) : best[k][1] = l
        THEN best[CHOOSE k \in 1..Len(best) :
                     /\ best[k][1] = l
                     /\ \A k2 \in (k + 1)..Len(best) : best[k2][1] # l][2]
        ELSE l]

\* mutant: the gaps the merges leave in the labels are not closed
final_map_gaps(labels, l) == l

\* final_map: rank of each label present among the labels present, from 0 if
\* label 0 is present and from 1 otherwise
final_map(labels, l) ==
    LET present == {labels[c[1]][c[2]] : c \in Cells}
        if_env0 == 0 \in present
    IN Cardinality({x \in present : x < l}) + (IF if_env0 THEN 0 ELSE 1)

\* the result of set_final_states, or Raised where an IndexError leaves it
Raised == [raised |-> TRUE]

set_final_states(sl, labels, m_range, shared, thresh) ==
    LET pairs == pair_seq(Len(sl), 1, 2)
        proposed == proposed_merge(sl, shared, thresh, pairs, Len(pairs))
        best == settle_chains(best_merge(sl, proposed, Len(sl)), 1)
        maxl == max_label(labels)
        rmap == merge_relabel_map(best, maxl)
        merged == [i \in 1..NumPart |-> [w \in 1..NumWin |-> rmap[labels[i][w]]]]
        compact == [i \in 1..NumPart |-> [w \in 1..NumWin |->
                      final_map(merged, merged[i][w])]]
        states_to_remove == {best[k][1] : k \in 1..Len(best)}
        keep == SelectSeq([i \in 1..Len(sl) |-> i], LAMBDA i : i \notin states_to_remove)
        updated_states == [k \in 1..Len(keep) |-> sl[keep[k]]]
    IN IF \E k \in 1..Len(best) : best[k][1] > maxl THEN Raised
       ELSE IF updated_states = <<>> THEN Raised
       ELSE [raised |-> FALSE,
             states |-> final_state_settings(updated_states, compact, m_range),
             labels |-> compact]

\* the shared fractions quad returns for a pair, in 1/1000, by the strength
\* of the overlap: <<larger fraction, smaller fraction>>
OverlapLevels == {1, 2, 3}

SharedTable == [level \in OverlapLevels |->
                  CASE level = 1 -> <<300, 100>>
                    [] level = 2 -> <<700, 300>>
                    [] level = 3 -> <<900, 700>>]

\* <<shared_fraction_1, shared_fraction_2>>: both are the same shared area,
\* divided by the area of the first and of the second Gaussian, so the
\* Gaussian of the smaller area has the larger fraction
shared_area_between_gaussians(st_1, st_0, level) ==
    LET hi == SharedTable[level][1]
        lo == SharedTable[level][2]
    IN IF area_milli(st_1) < area_milli(st_0) THEN <<hi, lo>>
       ELSE IF area_milli(st_1) > area_milli(st_0) THEN <<lo, hi>>
       ELSE <<hi, hi>>

\* area_max_overlap, in 1/1000
area_max_overlap == 500

\* -------------------------------------------------- max_prob_assignment
RECURSIVE SortedSeq(_)
SortedSeq(s) ==
    IF Len(s) <= 1 THEN s
    ELSE LET mn == SeqMin(s)
             k == CHOOSE k \in 1..Len(s) : s[k] = mn
         IN <<mn>> \o SortedSeq(SubSeq(s, 1, k - 1) \o SubSeq(s, k + 1, Len(s)))

\* twice np.median(window)
median_x2(window) ==
    LET srt == SortedSeq(window)
        n == Len(window)
    IN IF n % 2 = 1 THEN 2 * srt[(n + 1) \div 2]
       ELSE srt[n \div 2] + srt[n \div 2 + 1]

\* mutant: the correction is applied a second time, from the corrected label
find_max_prob_state_twice(window, old_label, sl) ==
    LET step(l) ==
           IF l < 1 \/ l > Len(sl) THEN l
           ELSE IF median_x2(window) * TH_DEN < 2 * sl[l].th_inf[1] THEN l - 1
           ELSE IF median_x2(window) * TH_DEN > 2 * sl[l].th_sup[1] THEN l + 1
           ELSE l
    IN step(step(old_label))

find_max_prob_state(window, old_label, sl) ==
    IF median_x2(window) * TH_DEN < 2 * sl[old_label].th_inf[1] THEN old_label - 1
    ELSE IF median_x2(window) * TH_DEN > 2 * sl[old_label].th_sup[1] THEN old_label + 1
    ELSE old_label

max_prob_labels(sl, matrix, labels) ==
    [i \in 1..NumPart |-> [w \in 1..NumWin |->
        IF labels[i][w] > 0
        THEN find_max_prob_state(Window(matrix, i, w), labels[i][w], sl)
        ELSE 0]]

max_prob_assignment(sl, matrix, labels) ==
    LET final_labels == max_prob_labels(sl, matrix, labels)
    IN [labels |-> final_labels,
        states |-> [i \in 1..Len(sl) |->
                      [sl[i] EXCEPT !.perc = label_count(final_labels, i)]]]

\* ------------------------------------ perform_gaussian_fit / custom_fit
\* Histogram positions, fitted means and sigmas are integers.  popt[2] is
\* the fitted area: in perform_gaussian_fit in plain units, in custom_fit
\* in units of sqrt(pi), so that the area tests compare integers.  Python
\* indexes popt and perr from 0, the sequences here from 1.
NumBins == 5        \* points of the smoothed histogram

GapSet == {1, 3}

CountsMaxSet == {1, 12}

\* stands for the float inf; no finite error of the model reaches it
Inf == 2 ^ 30

\* smoothed bin positions: ascending, evenly spaced
bins == [k \in 0..(NumBins - 1) |-> k + 1]

edges == bins

\* flat_m.size
n_data == NumPart * NumWin * tau_window

\* data limits handed to custom_fit as the bounds of the mean
m_limits == <<0, 6>>

\* (mean, sigma, area) values scipy.optimize.curve_fit can converge to
PoptSet == {0, 2, 6} \X {-1, 1, 5} \X {-4, 1, 40}

\* sqrt(diag(pcov)); pcov is filled with inf when it cannot be estimated
PerrSet == [1..3 -> {0, 1, Inf}]

\* curve_fit raises (None) or returns popt and pcov
CurveFitOutcomes ==
    {None} \cup { Some([popt |-> p, perr |-> e]) : p \in PoptSet, e \in PerrSet }

\* curve_fit called with bounds=([m_limits[0], 0, 0], [m_limits[1], inf, inf])
CurveFitBoundedOutcomes ==
    { o \in CurveFitOutcomes :
        o # None => /\ o[1].popt[1] >= m_limits[1]
                    /\ o[1].popt[1] <= m_limits[2]
                    /\ o[1].popt[2] >= 0
                    /\ o[1].popt[3] >= 0 }

B2N(b) == IF b THEN 1 ELSE 0

\* par_err / popt[j] > 0.5 in IEEE arithmetic: x/0 is inf for x > 0, 0/0 is
\* nan, and a negative quotient never exceeds 0.5
rel_err_gt_half(par_err, p) ==
    IF p < 0 THEN FALSE
    ELSE IF par_err = Inf THEN TRUE
    ELSE IF p = 0 THEN par_err > 0
    ELSE 2 * par_err > p

\* mutant: a large relative error costs two points per parameter
rel_err_penalty_double(perr, popt) ==
    2 * Cardinality({j \in 1..3 : rel_err_gt_half(perr[j], popt[j])})

\* for j, par_err in enumerate(perr): one point per parameter
rel_err_penalty(perr, popt) ==
    Cardinality({j \in 1..3 : rel_err_gt_half(perr[j], popt[j])})

\* the least-squares driver behind an unbounded curve_fit raises TypeError
\* when there are fewer points than the three parameters
too_few_points(id0, id1) == id1 - id0 < 3

\* if popt[1] < 0: popt[1] = -popt[1]; popt[2] = -popt[2]
flip_sign(popt) ==
    IF popt[2] < 0 THEN <<popt[1], -popt[2], -popt[3]>> ELSE popt

\* main.py: out is what curve_fit does on bins[id0:id1]
perform_gaussian_fit(id0, id1, counts_max, ndata, gap, out) ==
    IF out = None \/ too_few_points(id0, id1)
    THEN [flag |-> 0, goodness |-> 5, popt |-> None]
    ELSE LET flipped == flip_sign(out[1].popt)
             popt == <<flipped[1], flipped[2], flipped[3] * ndata>>
             first == bins[id0]
             last == bins[id1 - 1]
             \* gauss_max < area0/2, sigma0 = (bins[id0] - bins[id1])/6
             small_area == 12 * flipped[3] * flipped[2]
                              < counts_max * (bins[id0] - bins[id1])
         IN [flag |-> 1,
             goodness |-> 5 - B2N(small_area)
                            - B2N(popt[1] < first \/ popt[1] > last)
                            - B2N(popt[2] > last - first)
                            - rel_err_penalty(out[1].perr, popt)
                            - B2N(id1 - id0 <= gap),
             popt |-> popt]

\* functions.py: out is what the bounded curve_fit does on
\* edges[minima[0]:minima[1]]; empty is the content of np.empty((3,))
custom_fit(minima0, minima1, counts_max, gap, out, empty) ==
    IF out = None
    THEN [flag |-> 0, goodness |-> 5, popt |-> empty]
    ELSE LET popt == out[1].popt
             first == edges[minima0]
             last == edges[minima1 - 1]
             \* popt[2] < area0/2, sigma0 = (edges[minima1] - edges[minima0])/2
             small_area == 4 * popt[3] < counts_max * (edges[minima1] - edges[minima0])
         IN [flag |-> 1,
             goodness |-> 5 - B2N(popt[1] < first \/ popt[1] > last)
                            - B2N(popt[2] > last - first)
                            - B2N(small_area)
                            - rel_err_penalty(out[1].perr, popt)
                            - B2N(minima1 - minima0 <= gap),
             popt |-> popt]

\* ------------------------------------------------------- gauss_fit_max
\* smoothed histogram counts, one per position of bins
CountValues == {1, 5, 12}

Histograms == [0..(NumBins - 1) -> CountValues]

\* counts.max() and counts.argmax(): the first position of the maximum
max_val(counts) ==
    CHOOSE v \in CountValues :
       /\ \E k \in DOMAIN counts : counts[k] = v
       /\ \A k \in DOMAIN counts : counts[k] <= v

max_ind(counts) ==
    CHOOSE k \in DOMAIN counts :
       /\ counts[k] = max_val(counts)
       /\ \A n \in DOMAIN counts : n < k => counts[n] < max_val(counts)

start_id0(counts, gap) ==
    IF max_ind(counts) - gap > 0 THEN max_ind(counts) - gap ELSE 0

start_id1(counts, gap) ==
    IF max_ind(counts) + gap < NumBins - 1 THEN max_ind(counts) + gap
    ELSE NumBins - 1

\* while min_id0 > 0 and counts[min_id0] > counts[min_id0 - 1]: min_id0 -= 1
RECURSIVE min_id0(_, _)
min_id0(counts, id) ==
    IF id > 0 /\ counts[id] > counts[id - 1] THEN min_id0(counts, id - 1) ELSE id

RECURSIVE min_id1(_, _)
min_id1(counts, id) ==
    IF id < NumBins - 1 /\ counts[id] > counts[id + 1]
    THEN min_id1(counts, id + 1) ELSE id

\* while half_id0 > 0 and counts[half_id0] > max_val/2: half_id0 -= 1
RECURSIVE half_id0(_, _)
half_id0(counts, id) ==
    IF id > 0 /\ 2 * counts[id] > max_val(counts)
    THEN half_id0(counts, id - 1) ELSE id

RECURSIVE half_id1(_, _)
half_id1(counts, id) ==
    IF id < NumBins - 1 /\ 2 * counts[id] > max_val(counts)
    THEN half_id1(counts, id + 1) ELSE id

\* State(popt[0], popt[1], popt[2]) and build_boundaries(NUMBER_OF_SIGMAS)
state_of(popt) ==
    build_boundaries([mean |-> popt[1], sigma |-> popt[2], area |-> popt[3],
                      perc |-> 0, th_inf |-> <<0, -1>>, th_sup |-> <<0, -1>>],
                     NUMBER_OF_SIGMAS)

\* mutant: of two successful candidates the one of lower goodness is kept
choose_best_fit_lower(r_min, r_half) ==
    IF r_min.flag = 1 /\ r_half.flag = 0 THEN <<Some(r_min.popt), r_min.goodness>>
    ELSE IF r_min.flag = 0 /\ r_half.flag = 1
         THEN <<Some(r_half.popt), r_half.goodness>>
    ELSE IF r_min.flag * r_half.flag = 1
         THEN IF r_min.goodness < r_half.goodness
              THEN <<Some(r_min.popt), r_min.goodness>>
              ELSE <<Some(r_half.popt), r_half.goodness>>
    ELSE <<None, r_min.goodness>>

\* mutant: one failed candidate fails the whole attempt
choose_best_fit_strict(r_min, r_half) ==
    IF r_min.flag * r_half.flag = 1
    THEN IF r_min.goodness >= r_half.goodness
         THEN <<Some(r_min.popt), r_min.goodness>>
         ELSE <<Some(r_half.popt), r_half.goodness>>
    ELSE <<None, r_min.goodness>>

\* 8. Choose the best fit: <<None or the chosen popt, goodness>>
choose_best_fit(r_min, r_half) ==
    IF r_min.flag = 1 /\ r_half.flag = 0 THEN <<Some(r_min.popt), r_min.goodness>>
    ELSE IF r_min.flag = 0 /\ r_half.flag = 1
         THEN <<Some(r_half.popt), r_half.goodness>>
    ELSE IF r_min.flag * r_half.flag = 1
         THEN IF r_min.goodness >= r_half.goodness
              THEN <<Some(r_min.popt), r_min.goodness>>
              ELSE <<Some(r_half.popt), r_half.goodness>>
    ELSE <<None, r_min.goodness>>

\* the two candidate fits and the choice; solver keeps what curve_fit did on
\* each interval
gauss_fit_max(counts, gap, ndata, out_min, out_half) ==
    LET r_min == perform_gaussian_fit(min_id0(counts, start_id0(counts, gap)),
                                      min_id1(counts, start_id1(counts, gap)),
                                      max_val(counts), ndata, gap, out_min)
        r_half == perform_gaussian_fit(half_id0(counts, start_id0(counts, gap)),
                                       half_id1(counts, start_id1(counts, gap)),
                                       max_val(counts), ndata, gap, out_half)
        best == choose_best_fit(r_min, r_half)
    IN [min |-> r_min, half |-> r_half,
        solver |-> [min |-> out_min, half |-> out_half],
        state |-> IF best[1] = None THEN None ELSE Some(state_of(best[1][1])),
        goodness |-> best[2]]

\* the curve_fit outcomes tried on the two candidates of one attempt
SelOutcomes ==
    {None} \cup
    { Some([popt |-> p, perr |-> [j \in 1..3 |-> e]]) :
        p \in { <<2, 1, 40>>, <<6, 5, 1>> }, e \in {0, Inf} }

\* ------------------------------------------------------ iterative_search
Matrices ==
    { [i \in 1..NumPart |-> Concat(rows[i], NumWin)] :
        rows \in [1..NumPart -> [1..NumWin -> WindowSet]] }

Init ==
    /\ m_clean \in Matrices
    /\ pc = "FITTING"
    /\ all_the_labels = [i \in 1..NumPart |-> [w \in 1..NumWin |-> 0]]
    /\ states_list = <<>>
    /\ m_copy = m_clean
    /\ state = None
    /\ states_counter = 0
    /\ one_last_state = FALSE
    /\ result = None
    /\ par = None
    /\ sweep = None
    /\ merge = None
    /\ list_of_states = <<>>
    /\ fit_args = None
    /\ fit_result = None

\* mutant: the failure signal is ignored
fit_branch_classify(st) == "STABILIZING"

\* if state is None: break
fit_branch(st) == IF st = None THEN "RELABEL" ELSE "STABILIZING"

\* gauss_fit_max on the residual; failure breaks the loop
FitStep ==
    /\ pc = "FITTING"
    /\ \E st \in FitOutcomes :
         /\ state' = st
         /\ pc' = fit_branch(st)
    /\ UNCHANGED <<m_clean, all_the_labels, states_list, m_copy,
                   states_counter, one_last_state, list_of_states>>
    /\ UNCHANGED fitvars
    /\ UNCHANGED runvars

\* mutant: the loop is never left for want of new stable windows
search_ends_never(counter) == FALSE

\* if counter <= 0.0: break
search_ends(counter) == counter <= 0

\* find_stable_trj on the full matrix, append, test the counter
StabilizeStep ==
    /\ pc = "STABILIZING"
    /\ LET r == find_stable_trj(m_clean, state[1], all_the_labels, states_counter)
       IN /\ all_the_labels' = r.labels
          /\ one_last_state' = r.one_last_state
          /\ states_list' = Append(states_list, [state[1] EXCEPT !.perc = r.window_fraction])
          /\ states_counter' = states_counter + 1
          /\ IF search_ends(r.window_fraction)
             THEN pc' = "RELABEL" /\ m_copy' = m_copy
             ELSE pc' = "FITTING" /\ m_copy' = r.m2_array
    /\ state' = None
    /\ UNCHANGED <<m_clean, list_of_states>>
    /\ UNCHANGED fitvars
    /\ UNCHANGED runvars

\* relabel_states and return
RelabelStep ==
    /\ pc = "RELABEL"
    /\ LET r == relabel_states(all_the_labels, states_list)
       IN /\ all_the_labels' = r.labels
          /\ list_of_states' = r.states
    /\ pc' = "SEARCHED"
    /\ UNCHANGED <<m_clean, states_list, m_copy, state, states_counter,
                   one_last_state>>
    /\ UNCHANGED fitvars
    /\ UNCHANGED runvars

\* the fraction 1.0 as a numerator over all_the_labels.size
One == NumPart * NumWin

\* mutant: the empty state list is not recognised
no_classification_never(sl) == FALSE

\* if len(list_of_states) == 0
no_classification(sl) == Len(sl) = 0

\* the (number of states, fraction_0) pair timeseries_analysis returns
timeseries_return(sl, flag) ==
    IF no_classification(sl) THEN <<1, One>>
    ELSE <<Len(sl) + (IF flag THEN 1 ELSE 0), One - SumPerc(sl)>>

\* timeseries_analysis: no state found, return (1, 1.0)
NoStatesStep ==
    /\ pc = "SEARCHED"
    /\ no_classification(list_of_states)
    /\ pc' = "NO_STATES"
    /\ result' = Some(timeseries_return(list_of_states, one_last_state))
    /\ UNCHANGED <<m_clean, all_the_labels, states_list, m_copy, state,
                   states_counter, one_last_state, list_of_states>>
    /\ UNCHANGED fitvars
    /\ UNCHANGED <<par, sweep, merge>>

\* timeseries_analysis: set_final_states on the relabeled search result
SetFinalStatesStep ==
    /\ pc = "SEARCHED"
    /\ ~no_classification(list_of_states)
    /\ LET pairs == pair_seq(Len(list_of_states), 1, 2)
           pairset == {pairs[k] : k \in 1..Len(pairs)}
       IN \E overlap \in [pairset -> OverlapLevels] :
            LET shared == [q \in pairset |->
                             shared_area_between_gaussians(list_of_states[q[2]],
                                 list_of_states[q[1]], overlap[q])]
                r == set_final_states(list_of_states, all_the_labels,
                                      m_range_of(m_clean), shared, area_max_overlap)
            IN IF r.raised
                  THEN pc' = "RAISED" /\ UNCHANGED <<all_the_labels, list_of_states>>
                  ELSE /\ pc' = "FINAL"
                       /\ all_the_labels' = r.labels
                       /\ list_of_states' = r.states
    /\ UNCHANGED <<m_clean, states_list, m_copy, state, states_counter,
                   one_last_state>>
    /\ UNCHANGED fitvars
    /\ UNCHANGED runvars

\* max_prob_assignment on the final states and labels
MaxProbStep ==
    /\ pc = "FINAL"
    /\ LET r == max_prob_assignment(list_of_states, m_clean, all_the_labels)
       IN /\ all_the_labels' = r.labels
          /\ list_of_states' = r.states
    /\ pc' = "REASSIGNED"
    /\ UNCHANGED <<m_clean, states_list, m_copy, state, states_counter,
                   one_last_state>>
    /\ UNCHANGED fitvars
    /\ UNCHANGED runvars

\* timeseries_analysis (main.py): count the states and return
ReturnStep ==
    /\ pc = "FINAL"
    /\ pc' = "RETURNED"
    /\ result' = Some(timeseries_return(list_of_states, one_last_state))
    /\ UNCHANGED <<m_clean, all_the_labels, states_list, m_copy, state,
                   states_counter, one_last_state, list_of_states>>
    /\ UNCHANGED fitvars
    /\ UNCHANGED <<par, sweep, merge>>

Next ==
    \/ FitStep
    \/ StabilizeStep
    \/ RelabelStep
    \/ NoStatesStep
    \/ SetFinalStatesStep
    \/ MaxProbStep
    \/ ReturnStep

Spec == Init /\ [][Next]_vars

\* iterative_search is one sequential loop: a fit that can be attempted is
\* attempted, and a fitted state is handed to find_stable_trj
SpecSearch == Init /\ [][Next]_vars /\ WF_vars(FitStep) /\ WF_vars(StabilizeStep)

\* --------------------------------------------- relabel_states on its own
MaxStates == 3      \* states in the list handed to relabel_states

MeanSet == {2, 4, 6}

\* any Label Matrix over n states, each state's perc being the count of its
\* label; the search never holds two equal states
InitRelabel ==
    /\ pc = "RELABEL_CALL"
    /\ \E n \in 0..MaxStates :
         /\ all_the_labels \in [1..NumPart -> [1..NumWin -> 0..n]]
         /\ \E means \in [1..n -> MeanSet] :
              states_list =
                 [k \in 1..n |->
                    [build_boundaries(NewState(means[k], 1, 0), NUMBER_OF_SIGMAS)
                       EXCEPT !.perc = label_count(all_the_labels, k)]]
    /\ \A i, j \in 1..Len(states_list) : i # j => states_list[i] # states_list[j]
    /\ list_of_states = <<>>
    /\ m_clean = <<>>
    /\ m_copy = <<>>
    /\ state = None
    /\ states_counter = 0
    /\ one_last_state = FALSE
    /\ result = None
    /\ par = None
    /\ sweep = None
    /\ merge = None
    /\ fit_args = None
    /\ fit_result = None

RelabelOnce ==
    /\ pc = "RELABEL_CALL"
    /\ LET r == relabel_states(all_the_labels, states_list)
       IN /\ all_the_labels' = r.labels
          /\ list_of_states' = r.states
    /\ pc' = "RELABELED_ONCE"
    /\ UNCHANGED <<m_clean, states_list, m_copy, state, states_counter,
                   one_last_state>>
    /\ UNCHANGED fitvars
    /\ UNCHANGED runvars

\* relabel_states on its own output
RelabelAgain ==
    /\ pc = "RELABELED_ONCE"
    /\ LET r == relabel_states(all_the_labels, list_of_states)
       IN /\ all_the_labels' = r.labels
          /\ list_of_states' = r.states
    /\ pc' = "RELABELED_TWICE"
    /\ UNCHANGED <<m_clean, states_list, m_copy, state, states_counter,
                   one_last_state>>
    /\ UNCHANGED fitvars
    /\ UNCHANGED runvars

NextRelabel ==
    \/ RelabelOnce
    \/ RelabelAgain

SpecRelabel == InitRelabel /\ [][NextRelabel]_vars

\* ------------------------------------------------ one fit attempt on its own
InitFit ==
    /\ pc = "FIT_CALL"
    /\ \E id0 \in 0..(NumBins - 2) :
         \E id1 \in (id0 + 1)..(NumBins - 1) :
            \E gap \in GapSet :
               \E counts_max \in CountsMaxSet :
                  fit_args = Some([id0 |-> id0, id1 |-> id1, gap |-> gap,
                                   counts_max |-> counts_max])
    /\ fit_result = None
    /\ all_the_labels = <<>>
    /\ states_list = <<>>
    /\ list_of_states = <<>>
    /\ m_clean = <<>>
    /\ m_copy = <<>>
    /\ state = None
    /\ states_counter = 0
    /\ one_last_state = FALSE
    /\ result = None
    /\ par = None
    /\ sweep = None
    /\ merge = None

PerformGaussianFit ==
    /\ pc = "FIT_CALL"
    /\ \E out \in CurveFitOutcomes :
         fit_result' = Some(perform_gaussian_fit(fit_args[1].id0, fit_args[1].id1,
                                fit_args[1].counts_max, n_data, fit_args[1].gap, out))
    /\ pc' = "PERFORM_GAUSSIAN_FIT_RETURNED"
    /\ UNCHANGED <<m_clean, all_the_labels, states_list, m_copy, state,
                   states_counter, one_last_state, list_of_states, fit_args>>
    /\ UNCHANGED runvars

CustomFit ==
    /\ pc = "FIT_CALL"
    /\ \E out \in CurveFitBoundedOutcomes :
         \E empty \in PoptSet :
            fit_result' = Some(custom_fit(fit_args[1].id0, fit_args[1].id1,
                                   fit_args[1].counts_max, fit_args[1].gap, out, empty))
    /\ pc' = "CUSTOM_FIT_RETURNED"
    /\ UNCHANGED <<m_clean, all_the_labels, states_list, m_copy, state,
                   states_counter, one_last_state, list_of_states, fit_args>>
    /\ UNCHANGED runvars

\* main.py gauss_fit_max on a histogram whose Min candidate is the attempt
\* of fit_args
GaussFitMax ==
    /\ pc = "FIT_CALL"
    /\ \E counts \in Histograms :
         /\ max_val(counts) = fit_args[1].counts_max
         /\ min_id0(counts, start_id0(counts, fit_args[1].gap)) = fit_args[1].id0
         /\ min_id1(counts, start_id1(counts, fit_args[1].gap)) = fit_args[1].id1
         /\ \E out_min \in SelOutcomes :
              \E out_half \in SelOutcomes :
                 fit_result' = Some(gauss_fit_max(counts, fit_args[1].gap, n_data,
                                                  out_min, out_half))
    /\ pc' = "GAUSS_FIT_MAX_RETURNED"
    /\ UNCHANGED <<m_clean, all_the_labels, states_list, m_copy, state,
                   states_counter, one_last_state, list_of_states, fit_args>>
    /\ UNCHANGED runvars

NextFit ==
    \/ PerformGaussianFit
    \/ CustomFit
    \/ GaussFitMax

SpecFit == InitFit /\ [][NextFit]_vars

\* ------------------------------------------------ time_resolution_analysis
NumTau == 2         \* entries of tau_window_list

NumSmooth == 2      \* entries of t_smooth_list

\* param_grid: distinct ascending window lengths, a range of smoothing widths
tau_window_list == [k \in 1..NumTau |-> k + 1]

t_smooth_list == [k \in 1..NumSmooth |-> k]

\* how a run can end: the final state list (its percs) and the search flag:
\* no state, one state holding every window, one state and a residual
RunEndings ==
    { <<<<>>, FALSE>>,
      <<<<[perc |-> One]>>, FALSE>>,
      <<<<[perc |-> 1]>>, TRUE>> }

\* mutant: the outcome is put in front of the row
record_outcome_front(tmp, x) == <<x>> \o tmp

\* tmp.append(n_s)
record_outcome(tmp, x) == Append(tmp, x)

InitSweep ==
    /\ pc = "SWEEP_ROW"
    /\ par = Some([tau_window_list |-> tau_window_list,
                   t_smooth_list |-> t_smooth_list])
    /\ sweep = Some([i |-> 1, j |-> 1, tmp |-> <<>>, tmp1 |-> <<>>,
                     number_of_states |-> <<>>, fraction_0 |-> <<>>,
                     log |-> <<>>])
    /\ merge = None
    /\ result = None
    /\ all_the_labels = <<>>
    /\ states_list = <<>>
    /\ list_of_states = <<>>
    /\ m_clean = <<>>
    /\ m_copy = <<>>
    /\ state = None
    /\ states_counter = 0
    /\ one_last_state = FALSE
    /\ fit_args = None
    /\ fit_result = None

SweepUnchanged ==
    UNCHANGED <<m_clean, all_the_labels, states_list, m_copy, state,
                states_counter, one_last_state, list_of_states, fit_args,
                fit_result, par, merge>>

\* for tau_w in tau_window_list: tmp = [tau_w]; tmp1 = [tau_w]
SweepRowStart ==
    /\ pc = "SWEEP_ROW"
    /\ sweep[1].i <= Len(par[1].tau_window_list)
    /\ LET tau_w == par[1].tau_window_list[sweep[1].i]
       IN sweep' = Some([sweep[1] EXCEPT !.j = 1, !.tmp = <<tau_w>>,
                                          !.tmp1 = <<tau_w>>])
    /\ pc' = "SWEEP_CALL"
    /\ result' = result
    /\ SweepUnchanged

\* n_s, f_0 = timeseries_analysis(m_raw, par, tau_w, t_s) and the two appends;
\* log is the history of the calls made
SweepCall ==
    /\ pc = "SWEEP_CALL"
    /\ sweep[1].j <= Len(par[1].t_smooth_list)
    /\ \E ending \in RunEndings :
         LET ret == timeseries_return(ending[1], ending[2])
             call == [tau_w |-> par[1].tau_window_list[sweep[1].i],
                      t_s |-> par[1].t_smooth_list[sweep[1].j],
                      found |-> Len(ending[1]),
                      n_s |-> ret[1], f_0 |-> ret[2]]
         IN /\ result' = Some(ret)
            /\ sweep' = Some([sweep[1] EXCEPT
                                !.j = @ + 1,
                                !.tmp = record_outcome(@, ret[1]),
                                !.tmp1 = record_outcome(@, ret[2]),
                                !.log = Append(@, call)])
    /\ pc' = pc
    /\ SweepUnchanged

\* number_of_states.append(tmp); fraction_0.append(tmp1)
SweepRowEnd ==
    /\ pc = "SWEEP_CALL"
    /\ sweep[1].j > Len(par[1].t_smooth_list)
    /\ sweep' = Some([sweep[1] EXCEPT
                        !.i = @ + 1,
                        !.number_of_states = Append(@, sweep[1].tmp),
                        !.fraction_0 = Append(@, sweep[1].tmp1)])
    /\ pc' = "SWEEP_ROW"
    /\ result' = result
    /\ SweepUnchanged

\* the grid is exhausted: the two tables are saved
SweepDone ==
    /\ pc = "SWEEP_ROW"
    /\ sweep[1].i > Len(par[1].tau_window_list)
    /\ pc' = "SWEPT"
    /\ UNCHANGED <<result, sweep>>
    /\ SweepUnchanged

NextSweep ==
    \/ SweepRowStart
    \/ SweepCall
    \/ SweepRowEnd
    \/ SweepDone

SpecSweep == InitSweep /\ [][NextSweep]_vars

\* ------------------------------------------- the configuration of a run
\* Smoothed values are kept as fractions <<sum, number of terms>>.
MaxTauW == 2        \* largest window length tried

MaxSmooth == 2      \* largest t_smooth tried

MaxSide == 3        \* largest side of the 2D kernel tried

TauWSet == (0 - 1)..MaxTauW

TSmoothSet == 0..MaxSmooth

SideSet == 0..MaxSide

\* the raw signal of the run: one particle
m_raw == << <<0, 4, 8, 2>> >>

RECURSIVE SeqSum(_)
SeqSum(q) == IF q = <<>> THEN 0 ELSE q[1] + SeqSum(Tail(q))

\* int(a / b): the quotient truncated towards zero
TruncDiv(a, b) ==
    LET q == AbsVal(a) \div AbsVal(b)
    IN IF (a < 0) = (b < 0) THEN q ELSE -q

\* np.convolve(x, np.ones(window) / window, mode="valid") on every row
moving_average(data, window) ==
    [i \in 1..Len(data) |->
       [k \in 1..(Len(data[i]) - window + 1) |->
          <<SeqSum(SubSeq(data[i], k, k + window - 1)), window>>]]

\* np.ones(window) raises on a negative window, np.convolve on an empty kernel
moving_average_raises(window) == window <= 0

\* the mean over the square of the given side around every entry, clipped
moving_average_2d(data, side) ==
    LET half_width == (side - 1) \div 2
        lo(i) == IF i - half_width < 1 THEN 1 ELSE i - half_width
        hi(i, n) == IF i + half_width > n THEN n ELSE i + half_width
    IN [i \in 1..Len(data) |->
          [t \in 1..Len(data[i]) |->
             <<SeqSum([r \in 1..(hi(i, Len(data)) - lo(i) + 1) |->
                         SeqSum(SubSeq(data[lo(i) + r - 1], lo(t),
                                       hi(t, Len(data[i]))))]),
               (hi(i, Len(data)) - lo(i) + 1)
                  * (hi(t, Len(data[i])) - lo(t) + 1)>>]]

\* if side % 2 == 0
side_is_even(side) == side % 2 = 0

\* num_windows = int(m_clean.shape[1] / par.tau_w)
num_windows(m, tau_w) == TruncDiv(Len(m[1]), tau_w)

InitConfig ==
    /\ pc = "CONFIGURED"
    /\ \E tau_w \in TauWSet :
         \E t_smooth \in TSmoothSet :
            \E side \in SideSet :
               par = Some([tau_w |-> tau_w, t_smooth |-> t_smooth, side |-> side])
    /\ m_clean = None
    /\ all_the_labels = None
    /\ result = None
    /\ sweep = None
    /\ merge = None
    /\ states_list = <<>>
    /\ list_of_states = <<>>
    /\ m_copy = <<>>
    /\ state = None
    /\ states_counter = 0
    /\ one_last_state = FALSE
    /\ fit_args = None
    /\ fit_result = None

ConfigUnchanged ==
    UNCHANGED <<states_list, m_copy, state, states_counter, one_last_state,
                list_of_states, fit_args, fit_result, result, par, sweep, merge>>

\* functions.py moving_average_2d: the parity test comes first
MovingAverage2DStep ==
    /\ pc = "CONFIGURED"
    /\ IF side_is_even(par[1].side)
       THEN pc' = "RAISED_2D" /\ m_clean' = m_clean
       ELSE pc' = "SMOOTHED_2D" /\ m_clean' = moving_average_2d(m_raw, par[1].side)
    /\ all_the_labels' = all_the_labels
    /\ ConfigUnchanged

\* main.py preparing_the_data: smooth, then count the windows
PreparingTheDataStep ==
    /\ pc = "CONFIGURED"
    /\ IF moving_average_raises(par[1].t_smooth)
       THEN pc' = "RAISED" /\ m_clean' = m_clean
       ELSE /\ m_clean' = moving_average(m_raw, par[1].t_smooth)
            /\ pc' = IF par[1].tau_w = 0 THEN "RAISED" ELSE "PREPARED"
    /\ all_the_labels' = all_the_labels
    /\ ConfigUnchanged

\* main.py iterative_search: np.zeros((m_clean.shape[0], num_windows))
AllocateLabelsStep ==
    /\ pc = "PREPARED"
    /\ LET n == num_windows(m_clean, par[1].tau_w)
       IN IF n < 0
          THEN pc' = "RAISED" /\ all_the_labels' = all_the_labels
          ELSE /\ pc' = "LABELS_ALLOCATED"
               /\ all_the_labels' = [i \in 1..Len(m_clean) |-> [w \in 1..n |-> 0]]
    /\ m_clean' = m_clean
    /\ ConfigUnchanged

NextConfig ==
    \/ MovingAverage2DStep
    \/ PreparingTheDataStep
    \/ AllocateLabelsStep

SpecConfig == InitConfig /\ [][NextConfig]_vars

\* ------------------------------------- the histogram of gauss_fit_max
MaxParBins == 60    \* largest number of bins (par.bins) tried

\* gap = 1; if bins.size > 50: gap = 3
gap_of(bins_size) == IF bins_size > 50 THEN 3 ELSE 1

\* np.histogram(flat_m, bins=n) returns n counts and the n + 1 bin edges;
\* the valid moving average of width gap shortens both by gap - 1
histogram_sizes(n) ==
    LET gap == gap_of(n + 1)
    IN [counts_size |-> n, bins_size |-> n + 1, gap |-> gap,
        smoothed_counts_size |-> n - gap + 1,
        smoothed_bins_size |-> n + 1 - gap + 1]

InitHistogram ==
    /\ pc = "HISTOGRAM_CALL"
    /\ \E n \in 1..MaxParBins : par = Some([bins |-> n])
    /\ fit_args = None
    /\ fit_result = None
    /\ result = None
    /\ sweep = None
    /\ merge = None
    /\ m_clean = <<>>
    /\ all_the_labels = <<>>
    /\ states_list = <<>>
    /\ list_of_states = <<>>
    /\ m_copy = <<>>
    /\ state = None
    /\ states_counter = 0
    /\ one_last_state = FALSE

\* gauss_fit_max, steps 1 and 2: histogram, gap, smoothing
HistogramStep ==
    /\ pc = "HISTOGRAM_CALL"
    /\ fit_args' = Some(histogram_sizes(par[1].bins))
    /\ pc' = "HISTOGRAM_SMOOTHED"
    /\ UNCHANGED <<m_clean, all_the_labels, states_list, m_copy, state,
                   states_counter, one_last_state, list_of_states, fit_result>>
    /\ UNCHANGED runvars

NextHistogram ==
    \/ HistogramStep

SpecHistogram == InitHistogram /\ [][NextHistogram]_vars

\* ------------------------------------------- set_final_states on its own
MaxMerge == 3       \* states in the list handed to set_final_states

\* the (mean, sigma, lnpeak) triples of the states handed over
MergeStateSet == { <<0, 6, 1>>, <<2, 10, 0>>, <<4, 11, 0>>, <<5, 6, 2>> }

\* the m_range argument
merge_m_range == <<0 * TH_DEN, 9 * TH_DEN>>

\* the lists relabel_states can return: sorted by the mean
MergeLists ==
    UNION { { sl \in [1..n -> { NewState(p[1], p[2], p[3]) : p \in MergeStateSet }] :
                \A k \in 1..(n - 1) : sl[k].mean < sl[k + 1].mean } :
            n \in 1..MaxMerge }

\* set_final_states maps the Label Matrix cell by cell, whatever the position
\* of a cell: the rows are taken in non-decreasing order of the labels
InitMerge ==
    /\ pc = "SET_FINAL_STATES_CALL"
    /\ \E sl \in MergeLists :
         /\ all_the_labels \in [1..NumPart -> [1..NumWin -> 0..Len(sl)]]
         /\ \A i \in 1..NumPart : \A w \in 1..(NumWin - 1) :
               all_the_labels[i][w] <= all_the_labels[i][w + 1]
         /\ list_of_states =
               [k \in 1..Len(sl) |->
                  [build_boundaries(sl[k], NUMBER_OF_SIGMAS)
                     EXCEPT !.perc = label_count(all_the_labels, k)]]
    /\ merge = None
    /\ states_list = <<>>
    /\ m_clean = <<>>
    /\ m_copy = <<>>
    /\ state = None
    /\ states_counter = 0
    /\ one_last_state = FALSE
    /\ result = None
    /\ par = None
    /\ sweep = None
    /\ fit_args = None
    /\ fit_result = None

\* one call of set_final_states; merge keeps the arguments and the lists the
\* call builds on its way: proposed_merge, best_merge as selected and
\* best_merge as rewritten by the chain loop
SetFinalStatesCall ==
    /\ pc = "SET_FINAL_STATES_CALL"
    /\ LET sl == list_of_states
           pairs == pair_seq(Len(sl), 1, 2)
           pairset == {pairs[k] : k \in 1..Len(pairs)}
       IN \E overlap \in [pairset -> OverlapLevels] :
            LET shared == [q \in pairset |->
                             shared_area_between_gaussians(sl[q[2]], sl[q[1]],
                                                           overlap[q])]
                proposed == proposed_merge(sl, shared, area_max_overlap, pairs,
                                           Len(pairs))
                selected == best_merge(sl, proposed, Len(sl))
                r == set_final_states(sl, all_the_labels, merge_m_range, shared,
                                      area_max_overlap)
            IN /\ merge' = Some([list_of_states |-> sl,
                                 all_the_labels |-> all_the_labels,
                                 shared |-> shared,
                                 proposed_merge |-> proposed,
                                 selected |-> selected,
                                 best_merge |-> settle_chains(selected, 1)])
               /\ IF r.raised
                  THEN pc' = "SET_FINAL_STATES_RAISED"
                       /\ UNCHANGED <<all_the_labels, list_of_states>>
                  ELSE /\ pc' = "SET_FINAL_STATES_RETURNED"
                       /\ all_the_labels' = r.labels
                       /\ list_of_states' = r.states
    /\ UNCHANGED <<m_clean, states_list, m_copy, state, states_counter,
                   one_last_state, result, par, sweep>>
    /\ UNCHANGED fitvars

NextMerge ==
    \/ SetFinalStatesCall

SpecMerge == InitMerge /\ [][NextMerge]_vars

\* ------------------------------------------ find_intersection on its own
\* the (mean, sigma, lnpeak) triples of the two states handed over
IntersectStateSet == {2, 4, 6} \X {1, 2} \X {0, 1, 4}

InitIntersect ==
    /\ pc = "FIND_INTERSECTION_CALL"
    /\ \E p, q \in IntersectStateSet :
         /\ p[1] < q[1]
         /\ states_list = <<NewState(p[1], p[2], p[3]), NewState(q[1], q[2], q[3])>>
    /\ result = None
    /\ merge = None
    /\ all_the_labels = <<>>
    /\ list_of_states = <<>>
    /\ m_clean = <<>>
    /\ m_copy = <<>>
    /\ state = None
    /\ states_counter = 0
    /\ one_last_state = FALSE
    /\ par = None
    /\ sweep = None
    /\ fit_args = None
    /\ fit_result = None

\* th_val, th_type = find_intersection(st_0, st_1)
FindIntersectionCall ==
    /\ pc = "FIND_INTERSECTION_CALL"
    /\ pc' = "FIND_INTERSECTION_RETURNED"
    /\ result' = Some(find_intersection(states_list[1], states_list[2]))
    /\ UNCHANGED <<m_clean, all_the_labels, states_list, m_copy, state,
                   states_counter, one_last_state, list_of_states, par, sweep,
                   merge>>
    /\ UNCHANGED fitvars

NextIntersect ==
    \/ FindIntersectionCall

SpecIntersect == InitIntersect /\ [][NextIntersect]_vars

\* ---------------------------------------- max_prob_assignment on its own
\* the mean-sorted lists of fitted states, thresholds not yet settled
ReassignLists ==
    UNION { { sl \in [1..n -> { build_boundaries(NewState(p[1], p[2], p[3]),
                                                 NUMBER_OF_SIGMAS) : p \in FitSet }] :
                \A k \in 1..(n - 1) : sl[k].mean < sl[k + 1].mean } :
            n \in 1..MaxMerge }

\* the arguments are what set_final_states hands over: the states with the
\* thresholds final_state_settings gave them from the range of the data
InitReassign ==
    /\ pc = "MAX_PROB_ASSIGNMENT_CALL"
    /\ m_clean \in Matrices
    /\ \E sl \in ReassignLists :
         /\ all_the_labels \in [1..NumPart -> [1..NumWin -> 0..Len(sl)]]
         /\ list_of_states = final_state_settings(sl, all_the_labels,
                                                  m_range_of(m_clean))
    /\ merge = None
    /\ states_list = <<>>
    /\ m_copy = <<>>
    /\ state = None
    /\ states_counter = 0
    /\ one_last_state = FALSE
    /\ result = None
    /\ par = None
    /\ sweep = None
    /\ fit_args = None
    /\ fit_result = None

\* final_labels, list_of_states = max_prob_assignment(...); states_list
\* keeps the list and m_copy the labels the call was made with
MaxProbAssignmentCall ==
    /\ pc = "MAX_PROB_ASSIGNMENT_CALL"
    /\ pc' = "MAX_PROB_ASSIGNMENT_RETURNED"
    /\ LET r == max_prob_assignment(list_of_states, m_clean, all_the_labels)
       IN /\ all_the_labels' = r.labels
          /\ list_of_states' = r.states
    /\ states_list' = list_of_states
    /\ m_copy' = all_the_labels
    /\ UNCHANGED <<m_clean, state, states_counter, one_last_state>>
    /\ UNCHANGED fitvars
    /\ UNCHANGED runvars

NextReassign ==
    \/ MaxProbAssignmentCall

SpecReassign == InitReassign /\ [][NextReassign]_vars

\* ------------------------------------------------------------ properties
Label(c) == all_the_labels[c[1]][c[2]]

Last(sl) == sl[Len(sl)]

InSearch == pc \in {"FITTING", "STABILIZING"}

\* C1: within one search pass no step of the search, the classifier
\* included, changes a Label Matrix cell that is already nonzero.
C1_NonzeroLabelKept ==
    [][InSearch =>
         \A c \in Cells :
            Label(c) # 0 => all_the_labels'[c[1]][c[2]] = Label(c)]_vars

\* the classifier has run twice and both states hold windows
C1_Witness ==
    /\ pc = "FITTING"
    /\ states_counter >= 2
    /\ \E c \in Cells : Label(c) = 1
    /\ \E c \in Cells : Label(c) = 2

\* C2: a window gets the label offset+1 only if it was unclassified and its
\* minimum and maximum both lie within [th_inf, th_sup] of the fitted state.
C2_StableOnlyIfContained ==
    [][pc = "STABILIZING" =>
         \A c \in Cells :
            all_the_labels'[c[1]][c[2]] = states_counter + 1 =>
               /\ Label(c) = 0
               /\ SeqMin(Window(m_clean, c[1], c[2])) * TH_DEN >= state[1].th_inf[1]
               /\ SeqMax(Window(m_clean, c[1], c[2])) * TH_DEN <= state[1].th_sup[1]]_vars

\* the classifier has just applied a state that marked some window and left
\* unclassified a window reaching below th_inf and above th_sup whose mean
\* lies inside the bounds
C2_Witness ==
    /\ pc = "FITTING"
    /\ states_counter >= 1
    /\ \E c \in Cells : Label(c) = states_counter
    /\ \E c \in Cells :
          LET win == Window(m_clean, c[1], c[2])
              st == Last(states_list)
          IN /\ Label(c) = 0
             /\ SeqMin(win) * TH_DEN < st.th_inf[1]
             /\ SeqMax(win) * TH_DEN > st.th_sup[1]
             /\ (win[1] + win[2] + win[3]) * TH_DEN >= 3 * st.th_inf[1]
             /\ (win[1] + win[2] + win[3]) * TH_DEN <= 3 * st.th_sup[1]

\* C3: the percs of all states plus the fraction of windows labelled 0 sum
\* to 1 (as numerators: to the number of windows), for the raw list when
\* the search loop is left and for the output of max_prob_assignment.
C3_PercSumsToOne ==
    /\ pc = "RELABEL" =>
          SumPerc(states_list) + label_count(all_the_labels, 0) = NumPart * NumWin
    /\ pc = "REASSIGNED" =>
          SumPerc(list_of_states) + label_count(all_the_labels, 0) = NumPart * NumWin

\* reassignment has run on two states or more with a window left unclassified
C3_Witness ==
    /\ pc = "REASSIGNED"
    /\ Len(list_of_states) >= 2
    /\ label_count(all_the_labels, 0) > 0
    /\ \A k \in 1..Len(list_of_states) : list_of_states[k].perc > 0

\* C4: after final_state_settings adjacent states share their threshold in
\* value and type, and the outer thresholds are the data range with type 0.
C4_AbuttingThresholds ==
    pc = "FINAL" =>
       /\ \A k \in 1..(Len(list_of_states) - 1) :
             list_of_states[k].th_sup = list_of_states[k + 1].th_inf
       /\ list_of_states[1].th_inf = <<m_range_of(m_clean)[1], 0>>
       /\ Last(list_of_states).th_sup = <<m_range_of(m_clean)[2], 0>>

\* three states were finalised, with an intersection and a fallback threshold
C4_Witness ==
    /\ pc = "FINAL"
    /\ Len(list_of_states) = 3
    /\ \E k \in 1..3 : list_of_states[k].th_sup[2] = 1
    /\ \E k \in 1..3 : list_of_states[k].th_sup[2] = 2

\* C5: every state returned by final_state_settings has th_inf[0] < th_sup[0].
C5_ThresholdsOrdered ==
    pc = "FINAL" =>
       \A k \in 1..Len(list_of_states) :
          list_of_states[k].th_inf[1] < list_of_states[k].th_sup[1]

C7_RelabelIdempotent ==
    [][pc = "RELABELED_ONCE" =>
         /\ all_the_labels' = all_the_labels
         /\ list_of_states' = list_of_states]_vars

\* relabeling ran twice on a list it had to reorder and to prune: two kept
\* states out of mean order, two kept states of equal mean, an empty state
C7_Witness ==
    /\ pc = "RELABELED_TWICE"
    /\ Len(list_of_states) >= 2
    /\ \E i, j \in 1..Len(states_list) :
          /\ i < j
          /\ states_list[i].perc # 0 /\ states_list[j].perc # 0
          /\ states_list[i].mean > states_list[j].mean
    /\ \E k \in 1..Len(states_list) : states_list[k].perc = 0
    /\ \E c \in Cells : Label(c) = 0

Returned == pc \in {"PERFORM_GAUSSIAN_FIT_RETURNED", "CUSTOM_FIT_RETURNED"}

C9_FlagIffUnclassified ==
    pc = "SEARCHED" => (one_last_state <=> \E c \in Cells : Label(c) = 0)

\* C10 as stated: the state of an iteration that classified nothing is in
\* the state list the search returns.
C10_ZeroStateReturned ==
    (pc = "SEARCHED" /\ states_list # <<>> /\ Last(states_list).perc = 0) =>
       \E k \in 1..Len(list_of_states) :
          [list_of_states[k] EXCEPT !.perc = 0] = Last(states_list)

\* C10 amended: an iteration that classifies nothing ends the loop at once
\* and its state stays last in the raw list, but relabel_states drops it:
\* the returned list holds exactly the states with a nonzero relevance.
C10_ZeroStateKeptRawDroppedOnReturn ==
    /\ \A k \in 1..Len(states_list) :
          states_list[k].perc = 0 => (k = Len(states_list) /\ ~InSearch)
    /\ pc = "SEARCHED" =>
          /\ \A k \in 1..Len(list_of_states) : list_of_states[k].perc # 0
          /\ Len(list_of_states) =
                Cardinality({k \in 1..Len(states_list) : states_list[k].perc # 0})

\* the search stopped on an iteration that classified nothing, after others
C10_Witness ==
    /\ pc = "SEARCHED"
    /\ Len(states_list) >= 2
    /\ Last(states_list).perc = 0
    /\ Len(list_of_states) = Len(states_list) - 1
\* C11: a run whose search returns no state does not raise and calls neither
\* the merger nor the threshold finalisation: it returns 1 state and the
\* unclassified fraction 1.0, labels and state list left as the search
\* returned them.
C11_NoStatesSummary ==
    [][(pc = "SEARCHED" /\ Len(list_of_states) = 0) =>
          /\ pc' = "NO_STATES"
          /\ result' = Some(<<1, NumPart * NumWin>>)
          /\ all_the_labels' = all_the_labels
          /\ list_of_states' = list_of_states]_vars

\* a run returned without a state although the search had fitted one
C11_Witness ==
    /\ pc = "NO_STATES"
    /\ result = Some(<<1, NumPart * NumWin>>)
    /\ Len(states_list) >= 1
    /\ \A c \in Cells : Label(c) = 0
\* C12: in a sweep every configuration of the grid is run once, in grid
\* order, a configuration that finds no state included: its outcome (1 state,
\* fraction 1.0) is recorded like any other and the next configuration is
\* run; at the end each row of the two tables is the window length followed
\* by the outcomes of its configurations.
C12_SweepRecordsEveryConfiguration ==
    pc \in {"SWEEP_ROW", "SWEEP_CALL", "SWEPT"} =>
       LET log == sweep[1].log
           cell(i, j) == log[(i - 1) * NumSmooth + j]
       IN /\ \A k \in 1..Len(log) :
                /\ log[k].tau_w = tau_window_list[((k - 1) \div NumSmooth) + 1]
                /\ log[k].t_s = t_smooth_list[((k - 1) % NumSmooth) + 1]
                /\ log[k].found = 0 => (log[k].n_s = 1 /\ log[k].f_0 = One)
          /\ (\E k \in 1..Len(log) : log[k].found = 0 /\ k < NumTau * NumSmooth)
                => (pc = "SWEPT" \/ ENABLED NextSweep)
          /\ pc = "SWEPT" =>
                /\ Len(log) = NumTau * NumSmooth
                /\ sweep[1].number_of_states =
                      [i \in 1..NumTau |->
                         <<tau_window_list[i]>> \o
                            [j \in 1..NumSmooth |-> cell(i, j).n_s]]
                /\ sweep[1].fraction_0 =
                      [i \in 1..NumTau |->
                         <<tau_window_list[i]>> \o
                            [j \in 1..NumSmooth |-> cell(i, j).f_0]]

\* a sweep ended after a configuration without states was followed by one
\* with states
C12_Witness ==
    /\ pc = "SWEPT"
    /\ \E k \in 1..(Len(sweep[1].log) - 1) :
          /\ sweep[1].log[k].found = 0
          /\ sweep[1].log[k + 1].found > 0
\* C13: a malformed configuration fails before any array is allocated: the
\* 2D smoothing never returns for an even side and leaves no array behind
\* when it raises, and a run with a non-positive window length never holds a
\* smoothed signal or a Label Matrix.
C13_MalformedFailsBeforeArrays ==
    /\ pc = "SMOOTHED_2D" => par[1].side % 2 = 1
    /\ pc = "RAISED_2D" => m_clean = None
    /\ (pc \in {"PREPARED", "LABELS_ALLOCATED", "RAISED"} /\ par[1].tau_w <= 0) =>
          (pc = "RAISED" /\ m_clean = None /\ all_the_labels = None)
\* C14: when the Fit Engine fails, the search leaves the loop without running
\* the classifier: labels, raw state list and counter are untouched, and the
\* relabeling that follows keeps every accepted state and every classified
\* window.
C14_FitFailureKeepsStates ==
    [][/\ (pc = "FITTING" /\ state' = None) =>
             /\ pc' = "RELABEL"
             /\ all_the_labels' = all_the_labels
             /\ states_list' = states_list
             /\ states_counter' = states_counter
       /\ (pc = "RELABEL" /\ (states_list = <<>> \/ Last(states_list).perc # 0)) =>
             /\ Len(list_of_states') = Len(states_list)
             /\ \A k \in 1..Len(states_list) :
                   \E n \in 1..Len(list_of_states') :
                      list_of_states'[n] = states_list[k]
             /\ \A c \in Cells :
                   (Label(c) = 0) <=> (all_the_labels'[c[1]][c[2]] = 0)]_vars

\* the search ended on a fit failure with two states accepted before it
C14_Witness ==
    /\ pc = "SEARCHED"
    /\ Len(states_list) >= 2
    /\ Last(states_list).perc # 0
    /\ Len(list_of_states) = Len(states_list)
\* C15: every iteration classifies on the full Signal Matrix with the offset
\* equal to the number of accepted states: each unclassified window of the
\* matrix that lies within the new state's bounds, and no other, changes its
\* label, to the number k of the iteration, and all raw labels stay within
\* 0..(number of accepted states).
C15_ClassifierOnFullMatrixWithOffset ==
    [][/\ pc = "STABILIZING" =>
             /\ states_counter' = states_counter + 1
             /\ \A c \in Cells :
                   LET win == Window(m_clean, c[1], c[2])
                       inside == /\ SeqMin(win) * TH_DEN >= state[1].th_inf[1]
                                 /\ SeqMax(win) * TH_DEN <= state[1].th_sup[1]
                   IN IF Label(c) = 0 /\ inside
                      THEN all_the_labels'[c[1]][c[2]] = states_counter'
                      ELSE all_the_labels'[c[1]][c[2]] = Label(c)
       /\ InSearch =>
             \A c \in Cells : all_the_labels'[c[1]][c[2]] \in 0..states_counter']_vars

\* the second iteration gave label 2 to a window that comes before a window
\* of label 1 in the matrix, and a window is still unclassified
C15_Witness ==
    /\ pc = "FITTING"
    /\ states_counter = 2
    /\ \E v, w \in 1..NumWin :
          /\ v < w
          /\ all_the_labels[1][v] = 2
          /\ all_the_labels[1][w] = 1
    /\ \E c \in Cells : Label(c) = 0
\* C16: gauss_fit_max uses the only successful candidate; of two successful
\* candidates it keeps the one of higher goodness (the minima-bounded one on
\* a tie); with no successful candidate it returns None and no State.
C16_FitSelection ==
    pc = "GAUSS_FIT_MAX_RETURNED" =>
       LET r == fit_result[1]
       IN /\ (r.min.flag = 1 /\ r.half.flag = 0) =>
                (r.state = Some(state_of(r.min.popt)) /\ r.goodness = r.min.goodness)
          /\ (r.min.flag = 0 /\ r.half.flag = 1) =>
                (r.state = Some(state_of(r.half.popt)) /\ r.goodness = r.half.goodness)
          /\ (r.min.flag = 1 /\ r.half.flag = 1) =>
                /\ r.goodness >= r.min.goodness
                /\ r.goodness >= r.half.goodness
                /\ r.min.goodness >= r.half.goodness =>
                      (r.state = Some(state_of(r.min.popt))
                         /\ r.goodness = r.min.goodness)
                /\ r.min.goodness < r.half.goodness =>
                      (r.state = Some(state_of(r.half.popt))
                         /\ r.goodness = r.half.goodness)
          /\ (r.min.flag = 0 /\ r.half.flag = 0) => r.state = None

\* both candidates succeeded with different parameters and the
\* half-height one, of strictly higher goodness, was kept
C16_Witness ==
    /\ pc = "GAUSS_FIT_MAX_RETURNED"
    /\ fit_result[1].min.flag = 1
    /\ fit_result[1].half.flag = 1
    /\ fit_result[1].half.goodness > fit_result[1].min.goodness
    /\ fit_result[1].min.popt # fit_result[1].half.popt
    /\ fit_result[1].state = Some(state_of(fit_result[1].half.popt))

\* C17: a solver failure on one candidate interval comes back from
\* perform_gaussian_fit as a failed candidate (flag 0, no parameters) and
\* gauss_fit_max still returns; it returns None exactly when both candidates
\* of the attempt failed.
C17_SolverFailureStaysLocal ==
    [][pc = "FIT_CALL" /\ pc' = "GAUSS_FIT_MAX_RETURNED" =>
         LET r == fit_result'[1]
         IN /\ r.solver.min = None => (r.min.flag = 0 /\ r.min.popt = None)
            /\ r.solver.half = None => (r.half.flag = 0 /\ r.half.popt = None)
            /\ (r.state = None) <=> (r.min.flag = 0 /\ r.half.flag = 0)]_vars

\* the solver failed on the minima-bounded candidate only and the attempt
\* still produced a State
C17_Witness ==
    /\ pc = "GAUSS_FIT_MAX_RETURNED"
    /\ fit_result[1].solver.min = None
    /\ fit_result[1].solver.half # None
    /\ fit_result[1].half.flag = 1
    /\ fit_result[1].state # None
\* C18: the kernel width gap is 1 for a histogram of at most 50 bins and 3
\* for a histogram of more than 50 bins.
C18_GapByBinCount ==
    pc = "HISTOGRAM_SMOOTHED" =>
       fit_args[1].gap = (IF fit_args[1].counts_size <= 50 THEN 1 ELSE 3)
\* C19: relabel_states keeps exactly the states of nonzero relevance, in
\* ascending order of the mean with equal means in discovery order, and
\* relabels the Label Matrix through a one-to-one map from the kept states'
\* old labels onto 1..K, 0 staying 0: the windows of the j-th kept state
\* carry label j and no classified window becomes 0.
C19_RelabelDropsSortsAndMaps ==
    [][pc = "RELABEL_CALL" =>
         LET kept == {k \in 1..Len(states_list) : states_list[k].perc # 0}
             out == list_of_states'
             K == Len(out)
         IN /\ K = Cardinality(kept)
            /\ \A n \in 1..(K - 1) : out[n].mean <= out[n + 1].mean
            /\ \E f \in [kept -> 1..K] :
                  /\ \A k1, k2 \in kept : k1 # k2 => f[k1] # f[k2]
                  /\ \A k \in kept : out[f[k]] = states_list[k]
                  /\ \A k1, k2 \in kept :
                        (k1 < k2 /\ states_list[k1].mean = states_list[k2].mean)
                           => f[k1] < f[k2]
                  /\ \A c \in Cells :
                        all_the_labels'[c[1]][c[2]] =
                           IF Label(c) = 0 THEN 0 ELSE f[Label(c)]
            /\ \A c \in Cells : Label(c) # 0 => all_the_labels'[c[1]][c[2]] # 0]_vars

\* relabeling ran on a list whose first state was empty and whose two other
\* states have the same mean: both are kept, in discovery order
C19_Witness ==
    /\ pc = "RELABELED_ONCE"
    /\ Len(states_list) = 3
    /\ states_list[1].perc = 0
    /\ states_list[2].mean = states_list[3].mean
    /\ list_of_states = <<states_list[2], states_list[3]>>
    /\ \E c \in Cells : Label(c) = 1
    /\ \E c \in Cells : Label(c) = 2

\* C20: for every pair of states (i, j), i < j, handed to set_final_states and
\* every strength of their overlap: if only one of the two shared fractions
\* exceeds the threshold, that state is proposed to merge into the other; if
\* both exceed it, the state of the larger fraction is proposed to merge into
\* the other; the pair yields at most one proposal.
C20_PairMergeProposal ==
    pc = "SEARCHED" =>
       \A i \in 1..Len(list_of_states) : \A j \in (i + 1)..Len(list_of_states) :
          \A level \in OverlapLevels :
             LET st_0 == list_of_states[i]
                 st_1 == list_of_states[j]
                 sh == shared_area_between_gaussians(st_1, st_0, level)
                 frac_j == sh[1]
                 frac_i == sh[2]
                 p == pair_proposal(i, j, st_0, st_1, frac_j, frac_i,
                                    area_max_overlap)
             IN /\ Len(p) <= 1
                /\ (frac_j > area_max_overlap /\ frac_i <= area_max_overlap)
                      => p = << <<j, i>> >>
                /\ (frac_i > area_max_overlap /\ frac_j <= area_max_overlap)
                      => p = << <<i, j>> >>
                /\ (frac_j > area_max_overlap /\ frac_i > area_max_overlap
                    /\ frac_j > frac_i) => p = << <<j, i>> >>
                /\ (frac_j > area_max_overlap /\ frac_i > area_max_overlap
                    /\ frac_i > frac_j) => p = << <<i, j>> >>

\* set_final_states merged two states whose means are too far apart for the
\* mean-proximity rule and whose areas differ: the overlap rule proposed it
C20_Witness ==
    /\ pc = "FINAL"
    /\ Len(states_list) = 2
    /\ states_list[1].perc # 0
    /\ states_list[2].perc # 0
    /\ ~mean_close(states_list[1], states_list[2], states_list[1])
    /\ ~mean_close(states_list[1], states_list[2], states_list[2])
    /\ area_milli(states_list[1]) # area_milli(states_list[2])
    /\ Len(list_of_states) = 1

\* C21: in a call of set_final_states the secondary rule decides a pair
\* (i, j), i < j, only when neither shared fraction exceeds the threshold:
\* then the state of the lower peak is proposed to merge into the other if
\* the means are closer than the other's sigma / sqrt(2) and its own sigma
\* is below twice the other's, and nothing is proposed otherwise.  When a
\* fraction exceeds the threshold the proposal is the overlap rule's alone,
\* so the pair never gets a proposal from both rules.
C21_SecondaryRuleOnlyWithoutOverlap ==
    merge # None =>
       LET sl == merge[1].list_of_states
           proposed == merge[1].proposed_merge
           entries(i, j) == {k \in 1..Len(proposed) :
                               proposed[k] \in {<<i, j>>, <<j, i>>}}
       IN \A i \in 1..Len(sl) : \A j \in (i + 1)..Len(sl) :
             LET frac_j == merge[1].shared[<<i, j>>][1]
                 frac_i == merge[1].shared[<<i, j>>][2]
                 dist2 == 2 * (sl[i].mean - sl[j].mean) * (sl[i].mean - sl[j].mean)
                 j_into_i == /\ sl[i].lnpeak > sl[j].lnpeak
                             /\ dist2 < sl[i].sigma * sl[i].sigma
                             /\ sl[j].sigma < 2 * sl[i].sigma
                 i_into_j == /\ sl[j].lnpeak > sl[i].lnpeak
                             /\ dist2 < sl[j].sigma * sl[j].sigma
                             /\ sl[i].sigma < 2 * sl[j].sigma
                 overlap == frac_i > area_max_overlap \/ frac_j > area_max_overlap
                 has(a, b) == \E k \in 1..Len(proposed) : proposed[k] = <<a, b>>
             IN /\ Cardinality(entries(i, j)) <= 1
                /\ ~overlap =>
                      /\ j_into_i => has(j, i)
                      /\ i_into_j => has(i, j)
                      /\ (~j_into_i /\ ~i_into_j) => entries(i, j) = {}
                /\ overlap =>
                      IF frac_j > frac_i THEN has(j, i) ELSE has(i, j)

\* both cases of the claim in one call: a pair without overlap merged by the
\* secondary rule, and a pair whose overlap proposal goes against the
\* direction the secondary rule would have taken
C21_Witness ==
    /\ pc = "SET_FINAL_STATES_RETURNED"
    /\ Len(merge[1].list_of_states) = 3
    /\ merge[1].shared[<<1, 3>>][1] <= area_max_overlap
    /\ merge[1].shared[<<1, 3>>][2] <= area_max_overlap
    /\ \E k \in 1..Len(merge[1].proposed_merge) : merge[1].proposed_merge[k] = <<3, 1>>
    /\ merge[1].shared[<<1, 2>>][2] > merge[1].shared[<<1, 2>>][1]
    /\ merge[1].shared[<<1, 2>>][2] > area_max_overlap
    /\ merge[1].list_of_states[1].lnpeak > merge[1].list_of_states[2].lnpeak
    /\ \E k \in 1..Len(merge[1].proposed_merge) : merge[1].proposed_merge[k] = <<1, 2>>

\* C22: after the selection of the best merges in set_final_states every
\* state that was proposed as a source has exactly one selected merge, which
\* is one of its proposals, no other state has one, and no proposed target
\* of that source has its mean closer to the source's mean than the selected
\* target.
C22_OneClosestTargetPerSource ==
    merge # None =>
       LET sl == merge[1].list_of_states
           proposed == merge[1].proposed_merge
           selected == merge[1].selected
           away(pair) == IF sl[pair[2]].mean >= sl[pair[1]].mean
                         THEN sl[pair[2]].mean - sl[pair[1]].mean
                         ELSE sl[pair[1]].mean - sl[pair[2]].mean
       IN /\ \A k \in 1..Len(selected) :
                \E l \in 1..Len(proposed) : proposed[l] = selected[k]
          /\ \A src \in 1..Len(sl) :
                LET mine == {k \in 1..Len(selected) : selected[k][1] = src}
                    asked == {l \in 1..Len(proposed) : proposed[l][1] = src}
                IN /\ Cardinality(mine) = (IF asked = {} THEN 0 ELSE 1)
                   /\ \A k \in mine : \A l \in asked :
                         away(selected[k]) <= away(proposed[l])

\* a source was proposed to merge into two targets at different distances
\* and the nearer one was selected
C22_Witness ==
    /\ pc = "SET_FINAL_STATES_RETURNED"
    /\ \E a, b \in 1..Len(merge[1].proposed_merge) :
          /\ merge[1].proposed_merge[a] = <<1, 2>>
          /\ merge[1].proposed_merge[b] = <<1, 3>>
    /\ merge[1].list_of_states[2].mean - merge[1].list_of_states[1].mean
          < merge[1].list_of_states[3].mean - merge[1].list_of_states[1].mean
    /\ \E k \in 1..Len(merge[1].selected) : merge[1].selected[k] = <<1, 2>>

\* C23 as stated, on a call in which every state has a window: after the
\* chain loop of set_final_states, whenever A -> B and B -> C were both
\* selected the applied list sends A to C, and no target of the applied list
\* is itself a source of it.
C23_ChainsResolved ==
    (/\ merge # None
     /\ \A i \in 1..Len(merge[1].list_of_states) :
           \E c \in Cells : merge[1].all_the_labels[c[1]][c[2]] = i) =>
       LET selected == merge[1].selected
           applied == merge[1].best_merge
       IN /\ \A a, b \in 1..Len(selected) :
                selected[a][2] = selected[b][1] =>
                   \E k \in 1..Len(applied) :
                      applied[k] = <<selected[a][1], selected[b][2]>>
          /\ \A k, l \in 1..Len(applied) : applied[k][2] # applied[l][1]

\* C28 as stated, on a call in which every state has a window: set_final_states
\* never removes every state of a non-empty list and so never raises on the
\* empty list in final_state_settings.
C28_SomeStateSurvives ==
    (/\ merge # None
     /\ \A i \in 1..Len(merge[1].list_of_states) :
           \E c \in Cells : merge[1].all_the_labels[c[1]][c[2]] = i) =>
       /\ pc # "SET_FINAL_STATES_RAISED"
       /\ \E i \in 1..Len(merge[1].list_of_states) :
             \A k \in 1..Len(merge[1].best_merge) : merge[1].best_merge[k][1] # i

\* C24: when set_final_states returns, a window is unclassified (label 0)
\* after the call exactly if it was before; the positive labels present are
\* exactly 1..K for some K; and two classified windows get the same label
\* exactly if the applied merges send their old labels to the same state,
\* the new labels being in the order of the states they were sent to.
C24_ZeroFixedLabelsDense ==
    pc = "SET_FINAL_STATES_RETURNED" =>
       LET before == merge[1].all_the_labels
           applied == merge[1].best_merge
           sent(l) == IF \E k \in 1..Len(applied) : applied[k][1] = l
                      THEN applied[CHOOSE k \in 1..Len(applied) :
                                      applied[k][1] = l][2]
                      ELSE l
           present == {Label(c) : c \in Cells} \ {0}
       IN /\ \A c \in Cells : (before[c[1]][c[2]] = 0) <=> (Label(c) = 0)
          /\ present = 1..Cardinality(present)
          /\ \A c, d \in Cells :
                (before[c[1]][c[2]] # 0 /\ before[d[1]][d[2]] # 0) =>
                   /\ (sent(before[c[1]][c[2]]) < sent(before[d[1]][d[2]]))
                         <=> (Label(c) < Label(d))
                   /\ (sent(before[c[1]][c[2]]) = sent(before[d[1]][d[2]]))
                         <=> (Label(c) = Label(d))

\* a call merged state 2 into state 3 with windows of labels 0, 1 and 3:
\* label 0 stayed, the gap at 2 was closed and label 3 became 2
C24_Witness ==
    /\ pc = "SET_FINAL_STATES_RETURNED"
    /\ merge[1].best_merge = << <<2, 3>> >>
    /\ {merge[1].all_the_labels[c[1]][c[2]] : c \in Cells} = {0, 1, 3}
    /\ {Label(c) : c \in Cells} = {0, 1, 2}

C25_IntersectionTypeAndValue ==
    pc = "FIND_INTERSECTION_RETURNED" =>
       LET st_0 == states_list[1]
           st_1 == states_list[2]
           th == result[1][1]
           th_type == result[1][2]
           dm == st_1.mean - st_0.mean
           ds == st_1.sigma * st_1.sigma - st_0.sigma * st_0.sigma
           dl == st_0.lnpeak - st_1.lnpeak
           \* LN_DEN times (dm^2 + ds * ln(peak_0 / peak_1)): the sign of the
           \* discriminant
           disc == LN_DEN * dm * dm + ds * dl
           \* LN_DEN * sigma_0^2 * sigma_1^2 times the difference of the two
           \* log-densities at x / TH_DEN, times TH_DEN^2
           q(x) == LN_DEN * (st_1.sigma * st_1.sigma
                                * (x - TH_DEN * st_0.mean) * (x - TH_DEN * st_0.mean)
                             - st_0.sigma * st_0.sigma
                                * (x - TH_DEN * st_1.mean) * (x - TH_DEN * st_1.mean))
                   - TH_DEN * TH_DEN * st_0.sigma * st_0.sigma
                       * st_1.sigma * st_1.sigma * dl
           crosses_near(x) == \E y, z \in (x - 2)..(x + 2) : q(y) <= 0 /\ q(z) >= 0
           far(x) == IF x >= TH_DEN * st_0.mean THEN x - TH_DEN * st_0.mean
                     ELSE TH_DEN * st_0.mean - x
       IN /\ th_type \in {1, 2}
          /\ (th_type = 2) <=> (ds # 0 /\ disc < 0)
          /\ th_type = 2 =>
                th = FloorDiv(TH_DEN * (st_0.mean * st_1.sigma + st_1.mean * st_0.sigma),
                              st_0.sigma + st_1.sigma)
          /\ th_type = 1 => crosses_near(th)
          /\ (th_type = 1 /\ ds # 0) =>
                \A x \in (0 - 20 * TH_DEN)..(30 * TH_DEN) :
                   (crosses_near(x) /\ q(x - 2) * q(x + 2) < 0) =>
                      far(th) <= far(x) + 4

\* C26: max_prob_assignment leaves an unclassified window at label 0 and
\* changes the label l of a classified window by one step decided by the
\* thresholds of state l alone: l - 1 if the window's median is below the
\* lower threshold, otherwise l + 1 if it is above the upper threshold,
\* otherwise l.
C26_SingleStepCorrection ==
    pc = "MAX_PROB_ASSIGNMENT_RETURNED" =>
       \A c \in Cells :
          LET old == m_copy[c[1]][c[2]]
              new == Label(c)
              window == Window(m_clean, c[1], c[2])
              \* the middle value of an odd number of frames
              median == CHOOSE v \in {window[k] : k \in 1..Len(window)} :
                           /\ 2 * Cardinality({k \in 1..Len(window) : window[k] <= v})
                                 > Len(window)
                           /\ 2 * Cardinality({k \in 1..Len(window) : window[k] >= v})
                                 > Len(window)
          IN IF old = 0 THEN new = 0
             ELSE IF median * TH_DEN < states_list[old].th_inf[1]
                  THEN new = old - 1
             ELSE IF median * TH_DEN > states_list[old].th_sup[1]
                  THEN new = old + 1
             ELSE new = old

\* one call moved a window one state down although its median is below the
\* lower threshold of that state too, moved another window one state up and
\* left an unclassified window unclassified
C26_Witness ==
    /\ pc = "MAX_PROB_ASSIGNMENT_RETURNED"
    /\ \E c, d, e \in Cells :
          /\ m_copy[c[1]][c[2]] = 3
          /\ Label(c) = 2
          /\ SeqMax(Window(m_clean, c[1], c[2])) * TH_DEN < states_list[2].th_inf[1]
          /\ Label(d) = m_copy[d[1]][d[2]] + 1
          /\ m_copy[e[1]][e[2]] = 0
          /\ Label(e) = 0

\* C30: with the thresholds final_state_settings derives from the true
\* minimum and maximum of the data, max_prob_assignment keeps every
\* classified window classified and inside the state range: a label in 1..N
\* stays in 1..N, N being the number of states, so the number of classified
\* windows does not change.
C30_ReassignmentStaysInRange ==
    pc = "MAX_PROB_ASSIGNMENT_RETURNED" =>
       /\ \A c \in Cells :
             m_copy[c[1]][c[2]] \in 1..Len(states_list) =>
                Label(c) \in 1..Len(states_list)
       /\ Cardinality({c \in Cells : Label(c) # 0})
             = Cardinality({c \in Cells : m_copy[c[1]][c[2]] # 0})

\* the median of a window of the last state lies above the mean + 2 sigma of
\* that state, so only the data maximum used as its upper threshold kept the
\* window in range, while another window was moved to a neighbouring state
C30_Witness ==
    /\ pc = "MAX_PROB_ASSIGNMENT_RETURNED"
    /\ Len(states_list) >= 2
    /\ \E c, e \in Cells :
          /\ m_copy[c[1]][c[2]] = Len(states_list)
          /\ Label(c) = Len(states_list)
          /\ median_x2(Window(m_clean, c[1], c[2]))
                > 2 * (Last(states_list).mean
                         + NUMBER_OF_SIGMAS * Last(states_list).sigma)
          /\ m_copy[e[1]][e[2]] # 0
          /\ Label(e) # m_copy[e[1]][e[2]]

\* C27: iterative_search always terminates. Every iteration that goes back
\* to fitting has classified at least one window that was unclassified, an
\* iteration never unclassifies a window, the loop runs at most W + 1
\* iterations for W windows whatever the fits return, and the search is
\* eventually left.
C27_SearchTerminates ==
    /\ [][(pc = "STABILIZING" /\ pc' = "FITTING") =>
             Cardinality({c \in Cells : all_the_labels'[c[1]][c[2]] = 0})
                < Cardinality({c \in Cells : Label(c) = 0})]_vars
    /\ [](pc \in {"FITTING", "STABILIZING"} =>
             states_counter + 1 <= NumPart * NumWin + 1)
    /\ [](Len(states_list) <= NumPart * NumWin + 1)
    /\ <>(pc \notin {"FITTING", "STABILIZING"})

\* the longest search: every iteration but the last classified one window,
\* the last one none
C27_Witness ==
    /\ pc = "RELABEL"
    /\ Len(states_list) = NumPart * NumWin + 1
    /\ \A k \in 1..(NumPart * NumWin) : states_list[k].perc = 1
    /\ Last(states_list).perc = 0
    /\ \A c \in Cells : Label(c) # 0

====
